---- MODULE Spec2Model ----
(***************************************************************************)
(* A model of the device-filesystem core of RIME (horizon-institute/rime). *)
(*                                                                         *)
(*   Spec          the encrypted iOS backup lifecycle                      *)
(*                 (IosEncryptedDeviceFilesystem, filesystem/ios.py)       *)
(*   SpecManifest  iOS content addressing (_IosManifest, filesystem/ios.py)*)
(*   SpecCache     the metadata cache (filesystem/metadata.py)             *)
(*   SpecCacheRace two execution contexts in scandir on that cache         *)
(*   SpecZip       opening zip archives (filesystem/zipsupport.py)         *)
(*   SpecZipRace   two callers opening one archive at the same time        *)
(*   SpecDevice    create(), flags and probes of the five variants         *)
(*   SpecSql       read-only and read-write sqlite connections (sql.py)    *)
(*   SpecPure      dirname, basename and DirEntry.from_path                *)
(*   SpecView      the zipped variants beside the plain ones               *)
(*                                                                         *)
(* Strings are sequences of one-character strings, so that splitting,      *)
(* concatenation and slicing are computed as the code computes them.       *)
(***************************************************************************)
EXTENDS Integers, Sequences, FiniteSets, TLC

VARIABLES
    \* ---- encrypted iOS backup (Spec) ----
    disk,       \* the device root: decrypted manifest, '-decrypted' siblings
    settings,   \* DeviceSettings(root): key -> "none" | "0" | "1"
    inst,       \* the IosEncryptedDeviceFilesystem instances on that root
    last,       \* the last call made and how it ended
    \* ---- iOS content addressing (SpecManifest) ----
    files,      \* the rows of the Files table of Manifest.db, in rowid order
    mconn,      \* the manifest connection: its mode and uncommitted rows
    mlast,      \* the last manifest call and its result
    payloads,   \* the physical files under the root of the iOS backup
    \* ---- metadata cache (SpecCache) ----
    committed,  \* dir_entries / mime_types rows of the database file
    conns,      \* the MetadataDb connections and their open transactions
    sniffed,    \* how often DirEntry.from_path classified each path
    clast,      \* the last cache call and its result
    \* ---- archive materializer (SpecZip) ----
    zdisk,      \* the archive, its working directory and the temporary ones
    zcall,      \* each caller's position in the open it is making
    zlast,      \* the last step of an open and its result
    \* ---- device roots: create(), flags, probes (SpecDevice) ----
    roots,      \* what each root path holds on disk, settings included
    objs,       \* the filesystem object in use
    dlast,      \* the last call on a root and its result
    \* ---- sqlite connections (SpecSql) ----
    sqlst,      \* the database files and the connection made to one of them
    \* ---- path and classification functions (SpecPure) ----
    pcall,      \* the function applied, its argument and its result
    \* ---- two execution contexts in scandir (SpecCacheRace) ----
    scan        \* each context's position in scandir and what it looked up

encVars == <<disk, settings, inst, last>>
manVars == <<files, mconn, mlast, payloads>>
cacheVars == <<committed, conns, sniffed, clast, scan>>
zipVars == <<zdisk, zcall, zlast>>
devVars == <<roots, objs, dlast>>
sqlVars == <<sqlst>>
pureVars == <<pcall>>
vars == <<disk, settings, inst, last, files, mconn, mlast, payloads,
          committed, conns, sniffed, clast, scan, zdisk, zcall, zlast, roots, objs, dlast,
          sqlst, pcall>>

----------------------------------------------------------------------------
(* Strings *)

Range(s) == {s[k] : k \in 1..Len(s)}

\* str.split('/', 1): the parts before and after the first '/', or the
\* string alone when it has none.
SplitFirst(path) ==
    IF "/" \in Range(path)
    THEN LET k == CHOOSE j \in 1..Len(path) :
                      path[j] = "/" /\ \A h \in 1..(j - 1) : path[h] # "/"
         IN  <<SubSeq(path, 1, k - 1), SubSeq(path, k + 1, Len(path))>>
    ELSE <<path>>

\* s[:2]
Prefix2(s) == SubSeq(s, 1, IF Len(s) < 2 THEN Len(s) ELSE 2)

\* posixpath.join(a, b)
PosixJoin(a, b) ==
    IF Len(b) > 0 /\ b[1] = "/" THEN b
    ELSE IF Len(a) = 0 \/ a[Len(a)] = "/" THEN a \o b
    ELSE a \o <<"/">> \o b

\* The two hex digits of a character's byte.
HexOf(c) ==
    CASE c = "a" -> <<"6", "1">>
      [] c = "b" -> <<"6", "2">>
      [] c = "c" -> <<"6", "3">>
      [] c = "d" -> <<"6", "4">>
      [] c = "H" -> <<"4", "8">>
      [] c = "s" -> <<"7", "3">>
      [] c = "t" -> <<"7", "4">>
      [] c = "u" -> <<"7", "5">>
      [] c = "x" -> <<"7", "8">>
      [] c = "y" -> <<"7", "9">>
      [] c = "-" -> <<"2", "d">>
      [] c = "/" -> <<"2", "f">>
      [] OTHER   -> <<"3", "f">>

RECURSIVE HexDigest(_)
HexDigest(s) == IF Len(s) = 0 THEN <<>> ELSE HexOf(Head(s)) \o HexDigest(Tail(s))

----------------------------------------------------------------------------
(* _IosManifest: pure parts *)

\* hashlib.sha1(f"{domain}-{relative_path}".encode()).hexdigest().  SHA-1 is
\* taken as collision free: the digest is an injective hex string of the
\* hashed bytes.  The hashed string itself is built as the code builds it.
HashablePath(domain, relative_path) == domain \o <<"-">> \o relative_path


_get_ios_hash(domain, relative_path) == HexDigest(HashablePath(domain, relative_path))

\* The rows (in rowid order) a SELECT ... WHERE domain = d AND relativePath = r
\* returns; fetchone() takes the first.
RowsFor(rows, domain, relative_path) ==
    SelectSeq(rows, LAMBDA r : r.domain = domain /\ r.relativePath = relative_path)

RowsUnder(rows, file_id) == SelectSeq(rows, LAMBDA r : r.fileID = file_id)

\* Resolution that never consults the manifest.
FileIdSha1Only(rows, domain, relative_path) == _get_ios_hash(domain, relative_path)

\* The fileID get_hashed_pathname settles on (ios.py 59-71).
FileIdFor(rows, domain, relative_path) ==
    LET result == RowsFor(rows, domain, relative_path)
    IN  IF Len(result) > 0 THEN result[1].fileID
        ELSE _get_ios_hash(domain, relative_path)

\* get_hashed_pathname(path): "ValueError" when path has no '/'.
get_hashed_pathname(rows, path) ==
    LET parts == SplitFirst(path)
    IN  IF Len(parts) < 2 THEN [err |-> "ValueError", path |-> <<>>]
        ELSE LET file_id == FileIdFor(rows, parts[1], parts[2])
             IN  [err |-> "none", path |-> PosixJoin(Prefix2(file_id), file_id)]

----------------------------------------------------------------------------
(* The encrypted iOS backup: IosEncryptedDeviceFilesystem *)

MaxWrong == 2       \* wrong-passphrase decrypt() failures counted per object

\* Passphrases are strings; None is no string.
None == <<"None">>
RightPassphrase == <<"r">>
WrongPassphrase == <<"w">>
EmptyPassphrase == <<>>
Passphrases == {RightPassphrase, WrongPassphrase, EmptyPassphrase}

\* The Files rows of the backup's manifest, as decrypted into
\* Manifest-decrypted.db, and the logical paths callers ask for: the two
\* payload files of the backup and a path the backup does not hold.
BackupRows ==
    << [fileID |-> _get_ios_hash(<<"H">>, <<"s">>), domain |-> <<"H">>, relativePath |-> <<"s">>],
       [fileID |-> _get_ios_hash(<<"H">>, <<"t">>), domain |-> <<"H">>, relativePath |-> <<"t">>] >>

EncPaths == { <<"H", "/", "s">>, <<"H", "/", "t">>, <<"H", "/", "u">> }

\* The encrypted payload files present under the root.
PayloadOnDisk ==
    { PosixJoin(Prefix2(BackupRows[k].fileID), BackupRows[k].fileID) : k \in 1..Len(BackupRows) }

DecryptedSuffix == <<"-", "d", "e", "c", "r", "y", "p", "t", "e", "d">>

\* self._backup = None
NoBackup == [present |-> FALSE, passphrase |-> None, unlocked |-> FALSE]

FreshInstance ==
    [alive |-> FALSE, manifest |-> "None", converter |-> "None",
     passphrase |-> None, backup |-> NoBackup, wrong |-> 0, decryptOk |-> FALSE]

NotDecryptedState(f) == f.manifest = "None" /\ f.converter = "None"
DecryptedState(f) == f.manifest = "open" /\ f.converter = "set"

\* DeviceSettings.set_*: boolean flags stored as "0"/"1" under the root.
SetSetting(s, key, value) == [s EXCEPT ![key] = IF value THEN "1" ELSE "0"]

\* "is not None" in place of truthiness: "" would reach the library.
TruthyNotNone(passphrase) == passphrase # None

\* Python truthiness of self._passphrase (None and "" are falsy).
Truthy(passphrase) == passphrase # None /\ passphrase # EmptyPassphrase

\* iphone_backup_decrypt.EncryptedBackup(backup_directory, passphrase): the
\* constructor only stores the passphrase; the keybag is unlocked on first use.
NewBackup(passphrase) == [present |-> TRUE, passphrase |-> passphrase, unlocked |-> FALSE]

\* Whether a handle's keybag unlocks (key derivation from its passphrase).
Unlocks(backup) == backup.unlocked \/ backup.passphrase = RightPassphrase

\* The library's ValueError swallowed: a wrong passphrase passes for success.
DecryptBackupSwallowsError(f, d, s) ==
    IF Truthy(f.passphrase)
    THEN [err |-> "none",
          f |-> [f EXCEPT !.backup = NewBackup(f.passphrase)],
          d |-> IF Unlocks(NewBackup(f.passphrase)) THEN [d EXCEPT !.manifest = TRUE] ELSE d,
          s |-> IF Unlocks(NewBackup(f.passphrase)) THEN SetSetting(s, "encrypted", FALSE) ELSE s]
    ELSE [err |-> "NoPassphrase", f |-> f, d |-> d, s |-> s]

\* A routine that leaves the 'encrypted' setting as it finds it.
DecryptBackupKeepsFlag(f, d, s) ==
    IF Truthy(f.passphrase)
    THEN LET b == NewBackup(f.passphrase)
         IN  IF Unlocks(b)
             THEN [err |-> "none",
                   f |-> [f EXCEPT !.backup = [b EXCEPT !.unlocked = TRUE]],
                   d |-> [d EXCEPT !.manifest = TRUE],
                   s |-> s]
             ELSE [err |-> "WrongPassphrase",
                   f |-> [f EXCEPT !.backup = b], d |-> d, s |-> s]
    ELSE [err |-> "NoPassphrase", f |-> f, d |-> d, s |-> s]

\* _decrypt_backup() (ios.py 573-598) on instance record f, disk d and
\* settings s: the error raised, and the three afterwards.
_decrypt_backup(f, d, s) ==
    IF Truthy(f.passphrase)
    THEN LET b == NewBackup(f.passphrase)                       \* line 588
         IN  IF Unlocks(b)
             THEN [err |-> "none",                              \* lines 589, 591
                   f |-> [f EXCEPT !.backup = [b EXCEPT !.unlocked = TRUE]],
                   d |-> [d EXCEPT !.manifest = TRUE],
                   s |-> SetSetting(s, "encrypted", FALSE)]
             ELSE [err |-> "WrongPassphrase",                   \* lines 593-595
                   f |-> [f EXCEPT !.backup = b], d |-> d, s |-> s]
    ELSE [err |-> "NoPassphrase", f |-> f, d |-> d, s |-> s]     \* line 598

\* EncryptedBackup.extract_file(relative_path, output_filename) on handle b:
\* unlocks the keybag if need be, looks the file up by relative path, and
\* writes it decrypted.
extract_file(b, relative_path) ==
    IF ~Unlocks(b) THEN "ValueError"
    ELSE IF \E k \in 1..Len(BackupRows) : BackupRows[k].relativePath = relative_path
         THEN "none" ELSE "FileNotFoundError"

\* A failed key derivation that drops the manifest connection and resolver.
DecryptFileForgetsManifest(f, d, s, path, decrypted_hashed_pathname) ==
    LET r == IF ~f.backup.present THEN _decrypt_backup(f, d, s)
             ELSE [err |-> "none", f |-> f, d |-> d, s |-> s]
    IN  IF r.err # "none"
        THEN [err |-> r.err, f |-> [r.f EXCEPT !.manifest = "None", !.converter = "None"],
              d |-> r.d, s |-> r.s, routine |-> ~f.backup.present, extracted |-> FALSE]
        ELSE IF extract_file(r.f.backup, SplitFirst(path)[2]) # "none"
        THEN [err |-> extract_file(r.f.backup, SplitFirst(path)[2]), f |-> r.f, d |-> r.d,
              s |-> r.s, routine |-> ~f.backup.present, extracted |-> FALSE]
        ELSE [err |-> "none", f |-> [r.f EXCEPT !.backup.unlocked = TRUE],
              d |-> [r.d EXCEPT !.siblings = @ \cup {decrypted_hashed_pathname}],
              s |-> r.s, routine |-> ~f.backup.present, extracted |-> TRUE]

\* decrypt_file(path, decrypted_hashed_pathname) (ios.py 554-571)
decrypt_file(f, d, s, path, decrypted_hashed_pathname) ==
    LET r == IF ~f.backup.present THEN _decrypt_backup(f, d, s)      \* lines 563-564
             ELSE [err |-> "none", f |-> f, d |-> d, s |-> s]
        routine == ~f.backup.present
    IN  IF r.err # "none"
        THEN [err |-> r.err, f |-> r.f, d |-> r.d, s |-> r.s,
              routine |-> routine, extracted |-> FALSE]
        ELSE LET e == extract_file(r.f.backup, SplitFirst(path)[2])  \* lines 566-571
             IN  IF e # "none"
                 THEN [err |-> e, f |-> r.f, d |-> r.d, s |-> r.s,
                       routine |-> routine, extracted |-> FALSE]
                 ELSE [err |-> "none",
                       f |-> [r.f EXCEPT !.backup.unlocked = TRUE],
                       d |-> [r.d EXCEPT !.siblings = @ \cup {decrypted_hashed_pathname}],
                       s |-> r.s, routine |-> routine, extracted |-> TRUE]

\* What a call leaves in 'last': the call, how it ended (the error raised or
\* the value returned), whether it ran _decrypt_backup and whether it had
\* extract_file write a decrypted payload file.
Call(op, arg, outcome, routine, extracted) ==
    [op |-> op, arg |-> arg, outcome |-> outcome, routine |-> routine,
     extracted |-> extracted]

EncIdle == UNCHANGED <<files, mconn, mlast, payloads, committed, conns, sniffed, clast, scan,
                       zdisk, zcall, zlast, roots, objs, dlast,
          sqlst, pcall>>

\* A constructor that does not look for Manifest-decrypted.db.
ConstructIgnoresManifest ==
    /\ inst' = [FreshInstance EXCEPT !.alive = TRUE]
    /\ settings' = SetSetting(settings, "encrypted", TRUE)
    /\ last' = Call("init", <<>>, "ok", FALSE, FALSE)
    /\ UNCHANGED disk
    /\ EncIdle

\* __init__ (ios.py 423-446): a new object on the root; an earlier object,
\* if any, is dropped.
Construct ==
    /\ IF disk.manifest
       THEN /\ inst' = [FreshInstance EXCEPT
                            !.alive = TRUE, !.manifest = "open", !.converter = "set"]
            /\ settings' = settings
       ELSE /\ inst' = [FreshInstance EXCEPT !.alive = TRUE]
            /\ settings' = SetSetting(settings, "encrypted", TRUE)
    /\ last' = Call("init", <<>>, "ok", FALSE, FALSE)
    /\ UNCHANGED disk
    /\ EncIdle

\* A set_passphrase that goes on to derive the keys from what it stored.
SetPassphraseDecrypts(p) ==
    /\ inst.alive
    /\ LET r == _decrypt_backup([inst EXCEPT !.passphrase = p], disk, settings)
       IN  /\ inst' = r.f
           /\ disk' = r.d
           /\ settings' = r.s
    /\ last' = Call("set_passphrase", p, "ok", TRUE, FALSE)
    /\ EncIdle

\* set_passphrase (ios.py 550-552)
set_passphrase(p) ==
    /\ inst.alive
    /\ inst' = [inst EXCEPT !.passphrase = p]
    /\ last' = Call("set_passphrase", p, "ok", FALSE, FALSE)
    /\ UNCHANGED <<disk, settings>>
    /\ EncIdle

\* A decrypt that runs the routine whether or not the manifest is on disk.
DecryptAlwaysDerives(p) ==
    /\ inst.alive
    /\ (p = WrongPassphrase /\ ~disk.manifest) => inst.wrong < MaxWrong
    /\ LET f0 == [inst EXCEPT !.passphrase = p]
           r  == _decrypt_backup(f0, disk, settings)
       IN  /\ IF r.err = "none"
              THEN inst' = [r.f EXCEPT !.manifest = "open", !.converter = "set",
                                       !.decryptOk = TRUE]
              ELSE inst' = [r.f EXCEPT
                                !.wrong = IF r.err = "WrongPassphrase" THEN @ + 1 ELSE @]
           /\ disk' = r.d
           /\ settings' = r.s
           /\ last' = Call("decrypt", p, IF r.err = "none" THEN "ok" ELSE r.err, TRUE, FALSE)
    /\ EncIdle

\* decrypt(passphrase) (ios.py 600-618)
decrypt(p) ==
    /\ inst.alive
    /\ (p = WrongPassphrase /\ ~disk.manifest) => inst.wrong < MaxWrong
    /\ LET f0 == [inst EXCEPT !.passphrase = p]                              \* line 606
           r  == IF ~disk.manifest THEN _decrypt_backup(f0, disk, settings)  \* 612-613
                 ELSE [err |-> "none", f |-> f0, d |-> disk, s |-> settings]
       IN  /\ IF r.err = "none"
              THEN inst' = [r.f EXCEPT !.manifest = "open", !.converter = "set",  \* 615-618
                                       !.decryptOk = TRUE]
              ELSE inst' = [r.f EXCEPT
                                !.wrong = IF r.err = "WrongPassphrase" THEN @ + 1 ELSE @]
           /\ disk' = r.d
           /\ settings' = r.s
           /\ last' = Call("decrypt", p, IF r.err = "none" THEN "ok" ELSE r.err,
                           ~disk.manifest, FALSE)
    /\ EncIdle


\* sqlite3_connect(path, read_only=True) (ios.py 503-523)
sqlite3_connect(path) ==
    /\ inst.alive
    /\ IF inst.converter = "None"
       THEN /\ last' = Call("sqlite3_connect", path, "NotDecrypted", FALSE, FALSE)   \* 510-511
            /\ UNCHANGED <<inst, disk, settings>>
       ELSE LET h == get_hashed_pathname(BackupRows, path)
                decrypted_hashed_pathname == h.path \o DecryptedSuffix         \* line 514
            IN  IF h.err # "none"
                THEN /\ last' = Call("sqlite3_connect", path, h.err, FALSE, FALSE)
                     /\ UNCHANGED <<inst, disk, settings>>
                ELSE IF decrypted_hashed_pathname \in disk.siblings           \* line 518
                THEN /\ last' = Call("sqlite3_connect", path, "ok", FALSE, FALSE)
                     /\ UNCHANGED <<inst, disk, settings>>
                ELSE LET r == decrypt_file(inst, disk, settings, path,
                                           decrypted_hashed_pathname)         \* line 519
                     IN  /\ inst' = r.f
                         /\ disk' = r.d
                         /\ settings' = r.s
                         /\ last' = Call("sqlite3_connect", path,
                                         IF r.err = "none" THEN "ok" ELSE r.err, r.routine,
                                         r.extracted)
    /\ EncIdle

\* open(path) (ios.py 493-498): the mode 'rb' is joined to the pathname as a
\* last component, below a payload file or below nothing.
open(path) ==
    /\ inst.alive
    /\ LET h == get_hashed_pathname(BackupRows, path)
           outcome == IF inst.converter = "None" THEN "NotDecrypted"
                      ELSE IF h.err # "none" THEN h.err
                      ELSE IF h.path \in PayloadOnDisk THEN "NotADirectoryError"
                      ELSE "FileNotFoundError"
       IN  last' = Call("open", path, outcome, FALSE, FALSE)
    /\ UNCHANGED <<inst, disk, settings>>
    /\ EncIdle

\* getsize without the test of lines 488-489: the resolver is used unset.
GetsizeUnguarded(path) ==
    /\ inst.alive
    /\ last' = Call("getsize", path,
                    IF inst.converter = "None" THEN "AttributeError" ELSE "ok", FALSE, FALSE)
    /\ UNCHANGED <<inst, disk, settings>>
    /\ EncIdle

\* getsize(path) (ios.py 487-491)
getsize(path) ==
    /\ inst.alive
    /\ LET h == get_hashed_pathname(BackupRows, path)
           outcome == IF inst.converter = "None" THEN "NotDecrypted"
                      ELSE IF h.err # "none" THEN h.err
                      ELSE IF h.path \in PayloadOnDisk THEN "ok"
                      ELSE "FileNotFoundError"
       IN  last' = Call("getsize", path, outcome, FALSE, FALSE)
    /\ UNCHANGED <<inst, disk, settings>>
    /\ EncIdle

\* exists(path) (ios.py 478-485)
exists(path) ==
    /\ inst.alive
    /\ LET h == get_hashed_pathname(BackupRows, path)
           outcome == IF inst.converter = "set"
                      THEN IF h.err # "none" THEN h.err
                           ELSE IF h.path \in PayloadOnDisk THEN "True" ELSE "False"
                      ELSE "False"
       IN  last' = Call("exists", path, outcome, FALSE, FALSE)
    /\ UNCHANGED <<inst, disk, settings>>
    /\ EncIdle

\* scandir(path) (ios.py 463-464)
scandir(path) ==
    /\ inst.alive
    /\ last' = Call("scandir", path, "EmptyList", FALSE, FALSE)
    /\ UNCHANGED <<inst, disk, settings>>
    /\ EncIdle

\* listdir(path) (ios.py 469-476)
listdir(path) ==
    /\ inst.alive
    /\ last' = Call("listdir", path,
                    IF inst.manifest = "None" THEN "NotDecrypted" ELSE "ok", FALSE, FALSE)
    /\ UNCHANGED <<inst, disk, settings>>
    /\ EncIdle

\* lock(locked) (ios.py 541-542)
\* IosEncryptedDeviceFilesystem.create_file
create_file(path) ==
    /\ inst.alive
    /\ last' = Call("create_file", path, "NotImplementedError", FALSE, FALSE)
    /\ UNCHANGED <<inst, disk, settings>>
    /\ EncIdle

\* The directory the encrypted backup lives in.
EncRoot == <<"r">>

\* _IosManifest.add_file on the decrypted manifest, which the encrypted
\* variant opens read-only: a registered pair passes, an unregistered one
\* fails at the INSERT.
add_file_read_only(rows, path) ==
    LET parts == SplitFirst(path)
    IN  IF Len(parts) < 2 THEN "ValueError"
        ELSE LET result == RowsUnder(rows, _get_ios_hash(parts[1], parts[2]))
             IN  IF Len(result) = 0 THEN "OperationalError"
                 ELSE IF ~(result[1].relativePath = parts[2] /\ result[1].domain = parts[1])
                 THEN "FileExistsError"
                 ELSE "none"

\* IosEncryptedDeviceFilesystem.sqlite3_create: add_file, the existence test
\* on the already resolved path, then a read-only connection to the payload.
sqlite3_create(path) ==
    /\ inst.alive
    /\ LET added == add_file_read_only(BackupRows, path)                    \* line 529
           real_path == get_hashed_pathname(BackupRows, path)               \* line 531
           syspath == PosixJoin(EncRoot, real_path.path)                    \* line 532
           again == get_hashed_pathname(BackupRows, syspath)                \* line 534
           outcome == IF inst.converter = "None" THEN "AttributeError"
                      ELSE IF added # "none" THEN added
                      ELSE IF again.err # "none" THEN again.err
                      ELSE IF again.path \in PayloadOnDisk THEN "FileExistsError"
                      ELSE IF real_path.path \in PayloadOnDisk THEN "handle"   \* line 539
                      ELSE "OperationalError"
       IN  last' = Call("sqlite3_create", path, outcome, FALSE, FALSE)
    /\ UNCHANGED <<inst, disk, settings>>
    /\ EncIdle

lock(locked) ==
    /\ inst.alive
    /\ settings' = SetSetting(settings, "locked", locked)
    /\ last' = Call("lock", <<>>, "ok", FALSE, FALSE)
    /\ UNCHANGED <<inst, disk>>
    /\ EncIdle

ReadOps == {"scandir", "listdir", "exists", "getsize", "open", "sqlite3_connect"}

NoSettings == [k \in {"subset_fs", "locked", "encrypted"} |-> "none"]

\* The other specifications' variables, at rest.
ManIdle == files = <<>> /\ mconn = <<>> /\ mlast = <<>> /\ payloads = <<>>
CacheIdle == committed = <<>> /\ conns = <<>> /\ sniffed = <<>> /\ clast = <<>> /\ scan = <<>>
ZipIdle == zdisk = <<>> /\ zcall = <<>> /\ zlast = <<>>
DevIdle == roots = <<>> /\ objs = <<>> /\ dlast = <<>>
SqlIdle == sqlst = <<>>
PureIdle == pcall = <<>>

\* A root holding an encrypted backup that was never opened, and no
\* filesystem object constructed on it yet.
Init ==
    /\ disk = [manifest |-> FALSE, siblings |-> {}]
    /\ settings = NoSettings
    /\ inst = FreshInstance
    /\ last = Call("none", <<>>, "none", FALSE, FALSE)
    /\ ManIdle /\ CacheIdle /\ ZipIdle /\ DevIdle /\ SqlIdle /\ PureIdle

Next ==
    \/ Construct
    \/ \E p \in Passphrases : set_passphrase(p)
    \/ \E p \in Passphrases : decrypt(p)
    \/ \E path \in EncPaths : sqlite3_connect(path)
    \/ \E path \in EncPaths : open(path)
    \/ \E path \in EncPaths : getsize(path)
    \/ \E path \in EncPaths : exists(path)
    \/ \E path \in EncPaths : scandir(path)
    \/ \E path \in EncPaths : listdir(path)
    \/ \E path \in EncPaths : create_file(path)
    \/ \E path \in EncPaths : sqlite3_create(path)
    \/ \E b \in BOOLEAN : lock(b)

Spec == Init /\ [][Next]_vars

----------------------------------------------------------------------------
(* Claims about the encrypted backup lifecycle.  'last' describes the step  *)
(* just taken, so in an action formula last' is the call of the step,       *)
(* unprimed variables are the state it was made in and primed ones the      *)
(* state it left.                                                           *)

\* The '-decrypted' sibling of a logical path.
SiblingOf(path) == get_hashed_pathname(BackupRows, path).path \o DecryptedSuffix

InBackup(path) ==
    /\ Len(SplitFirst(path)) = 2
    /\ \E k \in 1..Len(BackupRows) : BackupRows[k].relativePath = SplitFirst(path)[2]

\* C1: with no decrypted manifest on disk, decrypt(wrong) fails with
\* WrongPassphrase and leaves the object NotDecrypted and the disk without a
\* decrypted manifest; decrypt(right) succeeds and leaves it Decrypted, after
\* any number of wrong attempts.
C1_WrongThenRight ==
    [][ (last'.op = "decrypt" /\ ~disk.manifest) =>
          /\ last'.arg = WrongPassphrase =>
                /\ last'.outcome = "WrongPassphrase"
                /\ NotDecryptedState(inst')
                /\ ~disk'.manifest
          /\ last'.arg = RightPassphrase =>
                /\ last'.outcome = "ok"
                /\ DecryptedState(inst')
                /\ disk'.manifest ]_vars

C1_Witness ==
    /\ last.op = "decrypt" /\ last.arg = RightPassphrase /\ last.outcome = "ok"
    /\ last.routine
    /\ inst.wrong = MaxWrong
    /\ DecryptedState(inst)

C3_ConstructedState ==
    /\ [](last.op = "init" =>
            /\ DecryptedState(inst) <=> disk.manifest
            /\ NotDecryptedState(inst) <=> ~disk.manifest
            /\ inst.passphrase = None /\ ~inst.backup.present)
    /\ [][ ((last'.op = "decrypt" /\ last'.outcome = "ok") => disk'.manifest)
           /\ (disk.manifest => disk'.manifest) ]_vars

C3_Witness ==
    /\ last.op = "init" /\ DecryptedState(inst) /\ disk.manifest
    /\ inst.passphrase = None

\* C4: a call that reaches _decrypt_backup while the stored passphrase is
\* None or empty fails with NoPassphrase and changes neither the decrypt
\* state, the backup handle nor the disk.
C4_NoPassphrase ==
    [][ (last'.routine /\ inst'.passphrase \in {None, EmptyPassphrase}) =>
          /\ last'.outcome = "NoPassphrase"
          /\ disk' = disk
          /\ inst'.manifest = inst.manifest /\ inst'.converter = inst.converter
          /\ inst'.backup = inst.backup ]_vars

C4_Witness ==
    /\ last.op = "sqlite3_connect" /\ last.outcome = "NoPassphrase" /\ last.routine
    /\ inst.passphrase = None /\ DecryptedState(inst)

\* C5: a Decrypted object stays Decrypted whatever is called, and a
\* NotDecrypted object leaves that state only by a decrypt() that succeeds.
C5_DecryptedTerminal ==
    [][ /\ DecryptedState(inst) => DecryptedState(inst')
        /\ (inst.alive /\ last'.op # "init" /\ NotDecryptedState(inst)
                /\ ~NotDecryptedState(inst'))
             => (last'.op = "decrypt" /\ last'.outcome = "ok" /\ DecryptedState(inst')) ]_vars

C5_Witness ==
    /\ DecryptedState(inst)
    /\ last.op = "sqlite3_connect" /\ last.outcome = "WrongPassphrase"

\* C6: on a Decrypted object holding an unlocked handle, both
\* sqlite3_connect and open decrypt the requested payload file into its
\* sibling; and once decrypt() has succeeded the object never runs the
\* backup-decryption routine again.
C6_OpenDecryptsAndNoRederive ==
    [][ /\ (DecryptedState(inst) /\ inst.backup.unlocked
              /\ last'.op \in {"sqlite3_connect", "open"} /\ InBackup(last'.arg))
            => SiblingOf(last'.arg) \in disk'.siblings
        /\ (inst.decryptOk /\ last'.op # "init") => ~last'.routine ]_vars

\* C6 case: a Decrypted object holding an unlocked handle is asked to open a
\* payload file of the backup that has no sibling; the call fails and no
\* sibling is written.
C6_Witness ==
    /\ DecryptedState(inst) /\ inst.backup.unlocked
    /\ last.op = "open" /\ InBackup(last.arg) /\ last.outcome # "ok"
    /\ SiblingOf(last.arg) \notin disk.siblings

\* C26: set_passphrase(p) stores p and does nothing else: the decrypt state,
\* the backup handle, every file under the root and the encrypted, locked
\* and subset flags are as before, and the decryption routine is not run.
C26_SetPassphraseOnlyStores ==
    [][last'.op = "set_passphrase"
          => /\ inst' = [inst EXCEPT !.passphrase = last'.arg]
             /\ NotDecryptedState(inst') = NotDecryptedState(inst)
             /\ DecryptedState(inst') = DecryptedState(inst)
             /\ disk' = disk
             /\ settings' = settings
             /\ ~last'.routine /\ ~last'.extracted]_vars

\* C26 case: the right passphrase stored in an object that is NotDecrypted,
\* which stays so, on a backup that stays encrypted.
C26_Witness ==
    /\ last.op = "set_passphrase" /\ last.arg = RightPassphrase
    /\ inst.passphrase = RightPassphrase
    /\ NotDecryptedState(inst) /\ ~inst.backup.present
    /\ ~disk.manifest /\ settings["encrypted"] = "1"

\* C27: with the right passphrase in place, a decrypt-dependent operation
\* succeeds whatever failed before it: decrypt() with the right passphrase,
\* and the per-file decryption behind sqlite3_connect in a Decrypted object
\* that holds the right passphrase, for a file of the backup.
C27_RetryWithRightPassphraseSucceeds ==
    [][ /\ (last'.op = "decrypt" /\ last'.arg = RightPassphrase) => last'.outcome = "ok"
        /\ (last'.op = "sqlite3_connect" /\ InBackup(last'.arg)
              /\ DecryptedState(inst) /\ inst.passphrase = RightPassphrase)
            => last'.outcome = "ok" ]_vars

\* C27 case: an object that started Decrypted failed a per-file decryption
\* with a wrong passphrase, was given the right one, and fails again on the
\* handle the first attempt left.
C27_Witness ==
    /\ last.op = "sqlite3_connect" /\ InBackup(last.arg) /\ last.outcome = "ValueError"
    /\ DecryptedState(inst) /\ ~inst.decryptOk
    /\ inst.passphrase = RightPassphrase
    /\ inst.backup.present /\ inst.backup.passphrase = WrongPassphrase

\* C34: decrypt(p) with the decrypted manifest on disk returns true for
\* every p, the wrong and the empty passphrase included, without running the
\* backup-decryption routine; it stores p and leaves the object Decrypted,
\* and the disk, the settings and the backup handle as they were.
C34_DecryptWithManifestOnDisk ==
    [][ (last'.op = "decrypt" /\ disk.manifest) =>
          /\ last'.outcome = "ok"
          /\ ~last'.routine /\ ~last'.extracted
          /\ inst'.passphrase = last'.arg
          /\ DecryptedState(inst')
          /\ inst'.backup = inst.backup /\ inst'.wrong = inst.wrong
          /\ disk' = disk
          /\ settings' = settings ]_vars

\* C34 case: the wrong passphrase accepted by an object that started
\* Decrypted and never held a backup handle.
C34_Witness ==
    /\ last.op = "decrypt" /\ last.arg = WrongPassphrase /\ last.outcome = "ok"
    /\ ~last.routine
    /\ disk.manifest /\ DecryptedState(inst)
    /\ inst.passphrase = WrongPassphrase /\ ~inst.backup.present

\* C35: once an object exists, the 'encrypted' setting is "1" exactly while
\* there is no decrypted manifest on disk; it goes from "1" to "0" only in
\* a step whose backup-decryption routine succeeds and never back; a failed
\* decrypt, set_passphrase and lock leave it as it is.
C35_EncryptedFlagTracksLifecycle ==
    /\ [](inst.alive => ((settings["encrypted"] = "1") <=> ~disk.manifest))
    /\ [](inst.alive => settings["encrypted"] \in {"0", "1"})
    /\ [][ /\ settings["encrypted"] = "0" => settings'["encrypted"] = "0"
           /\ (settings["encrypted"] = "1" /\ settings'["encrypted"] = "0")
                 => (last'.routine /\ last'.outcome = "ok")
           /\ (\/ last'.op \in {"set_passphrase", "lock"}
               \/ last'.outcome \in {"WrongPassphrase", "NoPassphrase"})
                 => settings'["encrypted"] = settings["encrypted"] ]_vars

\* C35 case: a later object on a root whose backup an earlier object
\* decrypted starts with the setting "0", and a lock leaves it so.
C35_Witness ==
    /\ last.op = "lock" /\ settings["encrypted"] = "0" /\ settings["locked"] = "1"
    /\ disk.manifest /\ DecryptedState(inst)
    /\ inst.passphrase = None /\ ~inst.decryptOk

----------------------------------------------------------------------------
(* iOS content addressing: _IosManifest over one manifest connection *)

MaxRows == 3        \* rows the Files table may grow to

\* The other specifications' variables, at rest.
EncAtRest == disk = <<>> /\ settings = <<>> /\ inst = <<>> /\ last = <<>>
ManDiskOnly == UNCHANGED <<disk, settings, inst, last, committed, conns, sniffed, clast, scan,
                           zdisk, zcall, zlast, roots, objs, dlast, sqlst, pcall>>
\* _IosManifest touches Manifest.db only, no file beside it.
ManOnly == ManDiskOnly /\ UNCHANGED payloads

Row(file_id, domain, relative_path) ==
    [fileID |-> file_id, domain |-> domain, relativePath |-> relative_path]

\* Logical paths asked for: two pairs whose "domain-relativePath" strings
\* coincide, a relative path holding a '/', and a path with no '/'.
ManPaths ==
    { <<"a", "-", "b", "/", "c">>, <<"a", "/", "b", "-", "c">>, <<"a", "/", "c">>,
      <<"a", "/", "c", "/", "d">>, <<"x", "/", "y">>, <<"a", "c">> }

\* Manifests a connection may be opened on: the empty one create() makes, a
\* backup's with a row under a fileID of the backup tool's own, one with a
\* row registered under the hash of another pair, and a backup's with a row
\* under the hash of its own pair.
InitialManifests ==
    { <<>>,
      << Row(<<"a", "b", "1", "2">>, <<"a">>, <<"c", "/", "d">>) >>,
      << Row(_get_ios_hash(<<"a">>, <<"c">>), <<"x">>, <<"y">>) >>,
      << Row(_get_ios_hash(<<"x">>, <<"y">>), <<"x">>, <<"y">>) >> }

\* The rows a statement on the connection sees.
Visible == files \o mconn.pending

ManCall(op, path, err, result, swallowed) ==
    [op |-> op, path |-> path, err |-> err, result |-> result, swallowed |-> swallowed,
     existed |-> op = "sqlite3_create" /\ result \in payloads,
     path0 |-> IF op = "resolve" /\ mlast.op = "resolve" THEN mlast.path ELSE <<>>,
     result0 |-> IF op = "resolve" /\ mlast.op = "resolve" THEN mlast.result ELSE <<>>]

\* get_hashed_pathname(path) (ios.py 46-73).  A query that fails (there is no
\* Files table) is caught and counts as no row found.
Resolve(path) ==
    /\ LET h == get_hashed_pathname(IF mconn.table THEN Visible ELSE <<>>, path)
       IN  mlast' = ManCall("resolve", path, h.err, h.path,
                            h.err = "none" /\ ~mconn.table)
    /\ UNCHANGED <<files, mconn>>
    /\ ManOnly

\* add_file without the test of line 98: any row under the hash will do.
AddFileNoCollisionTest(path) ==
    /\ Len(SplitFirst(path)) = 2 /\ mconn.table /\ mconn.writeable
    /\ IF Len(RowsUnder(Visible, _get_ios_hash(SplitFirst(path)[1], SplitFirst(path)[2]))) = 0
       THEN /\ Len(Visible) < MaxRows
            /\ files' = Append(files,
                    Row(_get_ios_hash(SplitFirst(path)[1], SplitFirst(path)[2]),
                        SplitFirst(path)[1], SplitFirst(path)[2]))
       ELSE files' = files
    /\ mlast' = ManCall("add_file", path, "none", <<>>, FALSE)
    /\ UNCHANGED mconn
    /\ ManOnly

\* add_file(path) (ios.py 75-102)
add_file(path) ==
    LET parts == SplitFirst(path)                                        \* line 81
    IN  IF Len(parts) < 2
        THEN /\ mlast' = ManCall("add_file", path, "ValueError", <<>>, FALSE)
             /\ UNCHANGED <<files, mconn>> /\ ManOnly
        ELSE IF ~mconn.table
        THEN /\ mlast' = ManCall("add_file", path, "OperationalError", <<>>, FALSE)
             /\ UNCHANGED <<files, mconn>> /\ ManOnly
        ELSE LET domain == parts[1]
                 relative_path == parts[2]
                 ios_hash == _get_ios_hash(domain, relative_path)        \* line 82
                 result == RowsUnder(Visible, ios_hash)                  \* lines 84-87
             IN  IF Len(result) = 0                                      \* line 89
                 THEN IF ~mconn.writeable
                      THEN /\ mlast' = ManCall("add_file", path, "OperationalError",
                                               <<>>, FALSE)
                           /\ UNCHANGED <<files, mconn>> /\ ManOnly
                      ELSE /\ Len(Visible) < MaxRows
                           /\ files' = Visible \o <<Row(ios_hash, domain, relative_path)>>
                           /\ mconn' = [mconn EXCEPT !.pending = <<>>]   \* lines 95-97
                           /\ mlast' = ManCall("add_file", path, "none", <<>>, FALSE)
                           /\ ManOnly
                 ELSE IF ~(result[1].relativePath = relative_path
                            /\ result[1].domain = domain)                \* line 98
                 THEN /\ mlast' = ManCall("add_file", path, "FileExistsError", <<>>, FALSE)
                      /\ UNCHANGED <<files, mconn>> /\ ManOnly
                 ELSE /\ mlast' = ManCall("add_file", path, "none", <<>>, FALSE)
                      /\ UNCHANGED <<files, mconn>> /\ ManOnly

\* The root directory of the backup.
ManRoot == <<"r">>

\* Paths sqlite3_create is asked for: one with no row, and one whose row
\* and file a backup came with.
CreateDbPaths == {<<"x", "/", "y">>, <<"a", "/", "c", "/", "d">>}

\* What add_file(path) ends in and the rows it leaves, as add_file above.
AddFileOutcome(path) ==
    LET parts == SplitFirst(path)
        under == RowsUnder(Visible, _get_ios_hash(parts[1], parts[2]))
    IN  IF Len(parts) < 2 THEN [err |-> "ValueError", rows |-> Visible]
        ELSE IF ~mconn.table THEN [err |-> "OperationalError", rows |-> Visible]
        ELSE IF Len(under) = 0
        THEN IF ~mconn.writeable THEN [err |-> "OperationalError", rows |-> Visible]
             ELSE [err |-> "none",
                   rows |-> Visible \o <<Row(_get_ios_hash(parts[1], parts[2]),
                                              parts[1], parts[2])>>]
        ELSE IF ~(under[1].relativePath = parts[2] /\ under[1].domain = parts[1])
        THEN [err |-> "FileExistsError", rows |-> Visible]
        ELSE [err |-> "none", rows |-> Visible]

\* IosDeviceFilesystem.sqlite3_create(path) (ios.py 279-293): add_file, the
\* existence test, which is handed the physical path and resolves it once
\* more, then a read-write connection, which creates the file if it is
\* missing and opens it if it is there.
IosDeviceFilesystem_sqlite3_create(path) ==
    LET added == AddFileOutcome(path)                                       \* line 283
        real_path == get_hashed_pathname(added.rows, path)                  \* line 285
        syspath == PosixJoin(ManRoot, real_path.path)                       \* line 286
        again == get_hashed_pathname(added.rows, syspath)                   \* lines 288, 263
    IN  /\ Len(added.rows) <= MaxRows
        /\ IF added.err # "none"
           THEN /\ mlast' = ManCall("sqlite3_create", path, added.err, <<>>, FALSE)
                /\ UNCHANGED <<files, mconn, payloads>>
           ELSE /\ files' = added.rows
                /\ mconn' = [mconn EXCEPT !.pending = <<>>]
                /\ IF again.path \in payloads                               \* line 264
                   THEN /\ mlast' = ManCall("sqlite3_create", path, "FileExistsError",
                                            real_path.path, FALSE)
                        /\ UNCHANGED payloads
                   ELSE /\ mlast' = ManCall("sqlite3_create", path, "none",
                                            real_path.path, FALSE)
                        /\ payloads' = payloads \cup {real_path.path}       \* line 293
        /\ ManDiskOnly

\* _IosManifest.scandir(path) (ios.py 102-104) returns [] before anything
\* else: the rest of its body is never reached.
_IosManifest_scandir(rows, path) == <<>>

\* DeviceFilesystem.walk (base.py 132-137) over the entries scandir gave:
\* a directory is descended into, anything else is yielded.
RECURSIVE WalkEntries(_, _)
WalkEntries(rows, entries) ==
    IF entries = <<>> THEN <<>>
    ELSE (IF Head(entries).isdir
          THEN WalkEntries(rows, _IosManifest_scandir(rows, Head(entries).path))
          ELSE <<Head(entries)>>) \o WalkEntries(rows, Tail(entries))

\* The directories walked: a domain and a directory inside it.
WalkPaths == {<<"a">>, <<"x">>, <<"a", "/", "c">>}

\* IosDeviceFilesystem.walk(path): scandir is self._converter.scandir.
walk(path) ==
    /\ mlast' = ManCall("walk", path, "none",
                        WalkEntries(Visible, _IosManifest_scandir(Visible, path)), FALSE)
    /\ UNCHANGED <<files, mconn>>
    /\ ManOnly

\* A manifest connection just opened: read-only (the constructor's default)
\* or read-write, on a manifest with a Files table or, for an empty file,
\* without one.
InitManifest ==
    /\ \/ /\ files \in InitialManifests
          /\ mconn \in [writeable : BOOLEAN, table : {TRUE}, pending : {<<>>}]
       \/ /\ files = <<>>
          /\ mconn \in [writeable : BOOLEAN, table : {FALSE}, pending : {<<>>}]
    /\ mlast = [op |-> "none", path |-> <<>>, err |-> "none", result |-> <<>>,
                swallowed |-> FALSE, existed |-> FALSE, path0 |-> <<>>, result0 |-> <<>>]
    /\ payloads = {PosixJoin(Prefix2(files[k].fileID), files[k].fileID) : k \in 1..Len(files)}
    /\ EncAtRest /\ CacheIdle /\ ZipIdle /\ DevIdle /\ SqlIdle /\ PureIdle

NextManifest ==
    \/ \E path \in ManPaths : Resolve(path)
    \/ \E path \in ManPaths : add_file(path)
    \/ \E path \in WalkPaths : walk(path)
    \/ \E path \in CreateDbPaths : IosDeviceFilesystem_sqlite3_create(path)

SpecManifest == InitManifest /\ [][NextManifest]_vars

----------------------------------------------------------------------------
(* Claims about content addressing.  The pair a path names is read off the  *)
(* path here without the model's own splitting.                             *)

HasSlash(path) == \E k \in 1..Len(path) : path[k] = "/"
SlashAt(path) == CHOOSE k \in 1..Len(path) :
                    path[k] = "/" /\ ~\E j \in 1..(k - 1) : path[j] = "/"
DomainOf(path) == [k \in 1..(SlashAt(path) - 1) |-> path[k]]
RelativePathOf(path) == [k \in 1..(Len(path) - SlashAt(path)) |-> path[SlashAt(path) + k]]

\* Indices of the rows registered for the pair a path names.
RowsOfPair(path) ==
    {k \in 1..Len(files) :
        files[k].domain = DomainOf(path) /\ files[k].relativePath = RelativePathOf(path)}
Registered(path) == RowsOfPair(path) # {}
Least(S) == CHOOSE k \in S : \A j \in S : k <= j

HashedString(path) == DomainOf(path) \o <<"-">> \o RelativePathOf(path)
PhysicalOf(file_id) == <<file_id[1], file_id[2], "/">> \o file_id

\* C7: resolving 'domain/relativePath', split at the first '/' only, returns
\* fileID[0:2]/fileID for the fileID of the row matching both columns if
\* there is one, and for sha1("domain-relativePath") otherwise.
C7_Resolution ==
    (mlast.op = "resolve" /\ HasSlash(mlast.path)) =>
        /\ mlast.err = "none"
        /\ mlast.result =
             PhysicalOf(IF Registered(mlast.path)
                        THEN files[Least(RowsOfPair(mlast.path))].fileID
                        ELSE HexDigest(HashedString(mlast.path)))

C7_Witness ==
    /\ mlast.op = "resolve"
    /\ mlast.path = <<"a", "/", "c", "/", "d">>
    /\ mlast.result = <<"a", "b", "/", "a", "b", "1", "2">>

\* C8: two different pairs resolved against the same manifest
\* never come out at the same physical path.
C8_DifferentPairsDifferentPaths ==
    (mlast.op = "resolve" /\ mlast.result # <<>> /\ mlast.result0 # <<>>
        /\ mlast.path # mlast.path0)
      => mlast.result # mlast.result0

\* C8 case: two different pairs whose "domain-relativePath" strings coincide,
\* neither with a row, resolved one after the other to the same path.
C8_Witness ==
    /\ mlast.op = "resolve"
    /\ mlast.path = <<"a", "-", "b", "/", "c">>
    /\ mlast.path0 = <<"a", "/", "b", "-", "c">>
    /\ mlast.result = mlast.result0
    /\ files = <<>>

\* C9: on a connection that can write, add_file inserts and commits exactly
\* one row (hash, domain, relativePath) when no row is under the hash,
\* changes nothing when the row under the hash is for the same pair, and
\* fails with FileExistsError, changing nothing, when it is for another
\* pair; no fileID is ever registered for two different pairs.
C9_AddFile ==
    /\ [][ (mlast'.op = "add_file" /\ HasSlash(mlast'.path)
              /\ mconn.table /\ mconn.writeable) =>
            LET h == HexDigest(HashedString(mlast'.path))
                under == {k \in 1..Len(files) : files[k].fileID = h}
                new == [fileID |-> h, domain |-> DomainOf(mlast'.path),
                        relativePath |-> RelativePathOf(mlast'.path)]
            IN  /\ under = {} =>
                      (mlast'.err = "none" /\ files' = Append(files, new)
                          /\ mconn'.pending = <<>>)
                /\ (under # {} /\ under \subseteq RowsOfPair(mlast'.path)) =>
                      (mlast'.err = "none" /\ files' = files /\ mconn'.pending = <<>>)
                /\ (under # {} /\ ~(under \subseteq RowsOfPair(mlast'.path))) =>
                      (mlast'.err = "FileExistsError" /\ files' = files
                          /\ mconn'.pending = <<>>) ]_vars
    /\ [](\A j, k \in 1..Len(files) :
            files[j].fileID = files[k].fileID =>
                (files[j].domain = files[k].domain
                    /\ files[j].relativePath = files[k].relativePath))

C9_Witness ==
    /\ mlast.op = "add_file" /\ mlast.err = "FileExistsError"
    /\ mlast.path = <<"a", "/", "b", "-", "c">>
    /\ \E k \in 1..Len(files) :
          files[k].domain = <<"a", "-", "b">> /\ files[k].relativePath = <<"c">>

\* C36: the Files table holds at most one row for a (domain, relativePath)
\* pair, whatever rows it held at first and whatever add_file calls were
\* made on it.
C36_OneRowPerPair ==
    \A j, k \in 1..Len(files) :
        (files[j].domain = files[k].domain
            /\ files[j].relativePath = files[k].relativePath) => j = k

\* C36 case: add_file of a path whose row came with the backup under a
\* fileID of the backup tool's own succeeds and leaves a second row for
\* the pair, under the hash.
C36_Witness ==
    /\ mlast.op = "add_file" /\ mlast.err = "none"
    /\ mlast.path = <<"a", "/", "c", "/", "d">>
    /\ Len(files) = 2
    /\ files[1] = Row(<<"a", "b", "1", "2">>, <<"a">>, <<"c", "/", "d">>)
    /\ files[2] = Row(HexDigest(HashedString(mlast.path)), <<"a">>, <<"c", "/", "d">>)

\* C32: path resolution passes a failing manifest query on to the caller: no
\* resolution returns the SHA-1 path in place of the error of its query.
C32_QueryErrorSurfaces ==
    mlast.op = "resolve" => ~mlast.swallowed

\* C32 case: a path resolved on a manifest database without a Files table
\* comes back as the path of its hash, with no error.
C32_Witness ==
    /\ mlast.op = "resolve" /\ mlast.swallowed /\ mlast.err = "none"
    /\ ~mconn.table
    /\ mlast.path = <<"x", "/", "y">>
    /\ mlast.result = PhysicalOf(HexDigest(HashedString(mlast.path)))

\* C25: sqlite3_create(path) on a filesystem that can write fails with
\* FileExistsError when a file is already at the physical location the
\* path resolves to, and then opens nothing.
C25_CreateFailsOnExistingFile ==
    [][(mlast'.op = "sqlite3_create" /\ mlast'.result \in payloads)
          => mlast'.err = "FileExistsError"]_vars

\* C25 case: the second sqlite3_create of one path returns a connection to
\* the database the first one made.
C25_Witness ==
    /\ mlast.op = "sqlite3_create" /\ mlast.err = "none" /\ mlast.existed
    /\ mlast.path = <<"x", "/", "y">>
    /\ mconn.writeable

\* C38: on a manifest connection opened read-only, as the constructor opens
\* it, every add_file and every sqlite3_create ends in an error and leaves
\* the Files table as it was.
C38_ReadOnlyManifestCallsFail ==
    [][(~mconn.writeable /\ mlast'.op \in {"add_file", "sqlite3_create"})
          => (mlast'.err # "none" /\ files' = files)]_vars

\* C38 case: sqlite3_create of a path the backup has a row and a file for,
\* on a read-only manifest connection, returns a read-write connection to
\* that file.
C38_Witness ==
    /\ ~mconn.writeable /\ mconn.table
    /\ mlast.op = "sqlite3_create" /\ mlast.err = "none" /\ mlast.existed
    /\ mlast.path = <<"x", "/", "y">>
    /\ files = << Row(HexDigest(HashedString(mlast.path)), <<"x">>, <<"y">>) >>

\* The logical path of a row, and whether it lies at any depth under a
\* directory.
LogicalPath(row) == row.domain \o <<"/">> \o row.relativePath
IsUnder(path, dir) ==
    /\ Len(path) > Len(dir) + 1
    /\ SubSeq(path, 1, Len(dir) + 1) = dir \o <<"/">>

\* C22: walk(path) yields every file of the backup that lies at any depth
\* under path, each once, and no directory.
C22_WalkYieldsEveryFile ==
    mlast.op = "walk" =>
        /\ \A k \in 1..Len(files) :
              IsUnder(LogicalPath(files[k]), mlast.path) =>
                  Cardinality({j \in 1..Len(mlast.result) :
                                  mlast.result[j].path = LogicalPath(files[k])}) = 1
        /\ \A j \in 1..Len(mlast.result) : ~mlast.result[j].isdir

\* C22 case: a backup with the file a/c/d, walked from a, yields nothing.
C22_Witness ==
    /\ mlast.op = "walk" /\ mlast.path = <<"a">> /\ mlast.result = <<>>
    /\ \E k \in 1..Len(files) : LogicalPath(files[k]) = <<"a", "/", "c", "/", "d">>

----------------------------------------------------------------------------
(* The metadata cache: MetadataDb connections on one database file, filled  *)
(* through get_dir_entries_and_update_db.                                   *)

MaxSniffs == 3      \* classifications of one path the model follows

ConnIds == {"m1", "m2"}      \* MetadataDb objects opened on the database file

MIME_TYPE_NOT_YET_DETERMINED == "rime/mime-type-not-yet-determined"
MIME_TYPE_CANNOT_DETERMINE == "rime/mime-type-cannot-determine"
MIME_TYPE_DIRECTORY == "inode/directory"

\* The live filesystem under the cache; it does not change.  A regular file
\* has its first bytes ("" when empty), the type filetype.guess finds in
\* them and the type mimetypes guesses from its name ("None" for neither).
LiveDir == [isdir |-> TRUE, isreg |-> FALSE, first_bytes |-> "",
            filetype |-> "None", guess_type |-> "None"]
LivePng == [isdir |-> FALSE, isreg |-> TRUE, first_bytes |-> "png",
            filetype |-> "image/png", guess_type |-> "None"]
Dirs == {<<"d">>, <<"e">>}
CachePaths == {<<"d", "/", "a">>, <<"d", "/", "b">>}
Stat(path) == IF path \in Dirs THEN LiveDir ELSE LivePng

\* self._fs.listdir(path)
ListDir(path) == IF path = <<"d">> THEN << <<"a">>, <<"b">> >> ELSE <<>>

\* The lists of pathnames a caller passes: one or two paths, repeats included.
PathnameLists ==
    {<<p>> : p \in CachePaths} \cup {<<p, q>> : p \in CachePaths, q \in CachePaths}

\* DirEntry.from_path(fs, path) (direntry.py 39-60); the stat value of the
\* unchanging file is left out of the entry.
\* Lines 43-58 without the test of line 49: an empty file goes on to the
\* sniffing and the extension guess.
MimeTypeSkipsEmptyTest(stat_val) ==
    IF stat_val.isdir THEN MIME_TYPE_DIRECTORY
    ELSE IF stat_val.isreg
    THEN IF stat_val.filetype = "None"
         THEN IF stat_val.guess_type = "None"
              THEN MIME_TYPE_CANNOT_DETERMINE ELSE stat_val.guess_type
         ELSE stat_val.filetype
    ELSE MIME_TYPE_CANNOT_DETERMINE

\* Lines 43-58: the type from_path gives a file with this stat value,
\* first bytes, sniffing result and extension guess.
MimeTypeOf(stat_val) ==
    IF stat_val.isdir THEN MIME_TYPE_DIRECTORY
    ELSE IF stat_val.isreg
    THEN IF stat_val.first_bytes = "" THEN MIME_TYPE_CANNOT_DETERMINE
         ELSE IF stat_val.filetype = "None"
         THEN IF stat_val.guess_type = "None"
              THEN MIME_TYPE_CANNOT_DETERMINE ELSE stat_val.guess_type
         ELSE stat_val.filetype
    ELSE MIME_TYPE_CANNOT_DETERMINE

from_path(path) == [path |-> path, mime_type |-> MimeTypeOf(Stat(path))]

\* fs.path_to_direntry(pathname) of a filesystem object that has the method.
path_to_direntry(pathname) == from_path(pathname)

NoTables == [dir_entries |-> <<>>, mime_types |-> <<>>]

\* The execution contexts (threads, requests) that call scandir, and one
\* that is not inside a call.
Contexts == {"t1", "t2"}
NoScan == [pc |-> "idle", conn |-> "none", has_method |-> FALSE,
           pathnames |-> <<>>, dir_entries |-> <<>>, pathnames_to_add |-> <<>>]
ClosedConn == [open |-> FALSE, dir_entries |-> <<>>, mime_types |-> <<>>]

\* What connection c reads: the committed rows, then the rows of its own
\* open transaction.  A mime_types row's id is its position.
DirEntriesOf(c) == committed.dir_entries \o conns[c].dir_entries
MimeTypesOf(c) == committed.mime_types \o conns[c].mime_types

\* Another connection holds the write lock: it has inserted and not committed.
Locked(c) ==
    \E o \in ConnIds \ {c} :
        conns[o].open /\ (conns[o].dir_entries # <<>> \/ conns[o].mime_types # <<>>)

\* get_dir_entries_for_pathnames (metadata.py 82-98): the dir_entries rows
\* whose path is requested, each joined to its mime_types row.
get_dir_entries_for_pathnames(dir_entries, mime_types, pathnames) ==
    LET results == SelectSeq(dir_entries,
                       LAMBDA row : /\ row.path \in Range(pathnames)
                                    /\ row.mime_type_id \in 1..Len(mime_types))
    IN  [k \in 1..Len(results) |->
            [path |-> results[k].path,
             mime_type |-> mime_types[results[k].mime_type_id]]]

\* {result[1]: result[0] for result in results}: for a type held by several
\* rows the last row's id stays in the dict.
MimeTypeId(mime_types, typ) ==
    CHOOSE k \in 1..Len(mime_types) :
        mime_types[k] = typ /\ \A j \in 1..Len(mime_types) : mime_types[j] = typ => j <= k


\* add_dir_entries_for_pathnames (metadata.py 100-142) on the tables a
\* connection reads: the tables after its two INSERTs.  Nothing is committed.
add_dir_entries_for_pathnames(dir_entries, mime_types, dir_entries_to_add) ==
    LET mime_types_to_add ==                                             \* line 114
            SelectSeq([k \in 1..Len(dir_entries_to_add) |-> dir_entries_to_add[k].mime_type],
                      LAMBDA typ : typ \notin Range(mime_types))
        types == mime_types \o mime_types_to_add                         \* line 121
        parameters ==                                                    \* lines 137-140
            [k \in 1..Len(dir_entries_to_add) |->
                [path |-> dir_entries_to_add[k].path,
                 mime_type_id |-> MimeTypeId(types, dir_entries_to_add[k].mime_type)]]
    IN  [dir_entries |-> dir_entries \o parameters, mime_types |-> types]

Count(x, s) == Cardinality({k \in 1..Len(s) : s[k] = x})

CacheOnly == UNCHANGED <<disk, settings, inst, last, files, mconn, mlast, payloads,
                         zdisk, zcall, zlast, roots, objs, dlast,
          sqlst, pcall>>

CacheCall(op, c, pathnames, found, sniffs, err, result) ==
    [op |-> op, conn |-> c, pathnames |-> pathnames, found |-> found,
     sniffs |-> sniffs, err |-> err, result |-> result]

\* get_dir_entries_and_update_db(fs, metadata_db, pathnames) (metadata.py
\* 145-162) on connection c; has_method tells whether fs has a
\* path_to_direntry method.  An INSERT made while another connection holds
\* the write lock fails with OperationalError (database is locked).
get_dir_entries_and_update_db(op, has_method, c, pathnames) ==
    LET dir_entries == get_dir_entries_for_pathnames(DirEntriesOf(c), MimeTypesOf(c),
                                                     pathnames)        \* line 152
        found_pathnames == {dir_entries[k].path : k \in 1..Len(dir_entries)}
        pathnames_to_add == SelectSeq(pathnames, LAMBDA p : p \notin found_pathnames)
        dir_entries_to_add ==
            [k \in 1..Len(pathnames_to_add) |-> path_to_direntry(pathnames_to_add[k])]
        tables == add_dir_entries_for_pathnames(DirEntriesOf(c), MimeTypesOf(c),
                                                dir_entries_to_add)
    IN  /\ IF pathnames_to_add = <<>>                                    \* line 157
           THEN /\ clast' = CacheCall(op, c, pathnames, found_pathnames, <<>>, "none",
                                      dir_entries)
                /\ UNCHANGED <<conns, sniffed>>
           ELSE IF ~has_method
           THEN /\ clast' = CacheCall(op, c, pathnames, found_pathnames, <<>>,
                                      "AttributeError", <<>>)            \* line 158
                /\ UNCHANGED <<conns, sniffed>>
           ELSE /\ \A p \in CachePaths : sniffed[p] + Count(p, pathnames_to_add) <= MaxSniffs
                /\ sniffed' = [p \in CachePaths |-> sniffed[p] + Count(p, pathnames_to_add)]
                /\ IF Locked(c)
                   THEN /\ clast' = CacheCall(op, c, pathnames, found_pathnames,
                                              pathnames_to_add, "OperationalError", <<>>)
                        /\ UNCHANGED conns
                   ELSE /\ conns' = [conns EXCEPT ![c] =
                               [open |-> TRUE,
                                dir_entries |-> SubSeq(tables.dir_entries,
                                    Len(committed.dir_entries) + 1, Len(tables.dir_entries)),
                                mime_types |-> SubSeq(tables.mime_types,
                                    Len(committed.mime_types) + 1, Len(tables.mime_types))]]
                        /\ clast' = CacheCall(op, c, pathnames, found_pathnames,
                                              pathnames_to_add, "none",
                                              dir_entries \o dir_entries_to_add)
        /\ UNCHANGED <<committed, scan>>
        /\ CacheOnly

\* MetadataDb(db_pathname) (metadata.py 18-41): a connection that reads the
\* committed rows.
MetadataDb(c) ==
    /\ ~conns[c].open
    /\ conns' = [conns EXCEPT ![c] = [ClosedConn EXCEPT !.open = TRUE]]
    /\ clast' = CacheCall("MetadataDb", c, <<>>, {}, <<>>, "none", <<>>)
    /\ UNCHANGED <<committed, sniffed, scan>>
    /\ CacheOnly

\* FSLibFilesystem.scandir(path) (fslibfilesystem.py 41-44); the class has
\* no path_to_direntry method.
FSLibFilesystem_scandir(c, path) ==
    /\ conns[c].open
    /\ get_dir_entries_and_update_db("scandir", FALSE, c,
          [k \in 1..Len(ListDir(path)) |-> PosixJoin(path, ListDir(path)[k])])

\* get_dir_entries_and_update_db called with a filesystem object that has
\* the method.
GetDirEntries(c, pathnames) ==
    /\ conns[c].open
    /\ get_dir_entries_and_update_db("get_dir_entries", TRUE, c, pathnames)

\* The connection goes away with its object; sqlite3 rolls back what it did
\* not commit.
Close(c) ==
    /\ conns[c].open
    /\ conns' = [conns EXCEPT ![c] = ClosedConn]
    /\ clast' = CacheCall("close", c, <<>>, {}, <<>>, "none", <<>>)
    /\ UNCHANGED <<committed, sniffed, scan>>
    /\ CacheOnly

InitCache ==
    /\ committed = NoTables
    /\ conns = [c \in ConnIds |-> ClosedConn]
    /\ sniffed = [p \in CachePaths |-> 0]
    /\ clast = CacheCall("none", "none", <<>>, {}, <<>>, "none", <<>>)
    /\ scan = [t \in Contexts |-> NoScan]
    /\ EncAtRest /\ ManIdle /\ ZipIdle /\ DevIdle /\ SqlIdle /\ PureIdle

NextCache ==
    \/ \E c \in ConnIds : MetadataDb(c)
    \/ \E c \in ConnIds, path \in Dirs : FSLibFilesystem_scandir(c, path)
    \/ \E c \in ConnIds, pathnames \in PathnameLists : GetDirEntries(c, pathnames)
    \/ \E c \in ConnIds : Close(c)

SpecCache == InitCache /\ [][NextCache]_vars

\* scandir in two steps, as two execution contexts interleave them.  The
\* first step is fslibfilesystem.py 41-44 up to metadata.py 155: the SELECT
\* of the rows of the directory's children on connection c, and the
\* pathnames it did not find.  A call that finds every child returns here.
scandir_lookup(t, c, has_method, path) ==
    /\ scan[t].pc = "idle"
    /\ conns[c].open
    /\ LET pathnames == [k \in 1..Len(ListDir(path)) |-> PosixJoin(path, ListDir(path)[k])]
           dir_entries == get_dir_entries_for_pathnames(DirEntriesOf(c), MimeTypesOf(c),
                                                        pathnames)        \* line 152
           found_pathnames == {dir_entries[k].path : k \in 1..Len(dir_entries)}
           pathnames_to_add == SelectSeq(pathnames, LAMBDA p : p \notin found_pathnames)
       IN  IF pathnames_to_add = <<>>                                    \* line 157
           THEN /\ clast' = CacheCall("scandir", c, pathnames, found_pathnames, <<>>,
                                      "none", dir_entries)
                /\ UNCHANGED scan
           ELSE /\ scan' = [scan EXCEPT ![t] =
                               [pc |-> "insert", conn |-> c, has_method |-> has_method,
                                pathnames |-> pathnames, dir_entries |-> dir_entries,
                                pathnames_to_add |-> pathnames_to_add]]
                /\ clast' = CacheCall("lookup", c, pathnames, found_pathnames, <<>>,
                                      "none", <<>>)
    /\ UNCHANGED <<committed, conns, sniffed>>
    /\ CacheOnly

\* The second step, metadata.py 158-162: classify the pathnames the lookup
\* did not find and INSERT their rows on the connection as it is now.
scandir_insert(t) ==
    /\ scan[t].pc = "insert"
    /\ LET c == scan[t].conn
           pathnames_to_add == scan[t].pathnames_to_add
           found_pathnames == {scan[t].dir_entries[k].path : k \in 1..Len(scan[t].dir_entries)}
           dir_entries_to_add ==
               [k \in 1..Len(pathnames_to_add) |-> path_to_direntry(pathnames_to_add[k])]
           tables == add_dir_entries_for_pathnames(DirEntriesOf(c), MimeTypesOf(c),
                                                   dir_entries_to_add)
       IN  IF ~scan[t].has_method
           THEN /\ clast' = CacheCall("scandir", c, scan[t].pathnames, found_pathnames, <<>>,
                                      "AttributeError", <<>>)            \* line 158
                /\ UNCHANGED <<conns, sniffed>>
           ELSE /\ \A p \in CachePaths : sniffed[p] + Count(p, pathnames_to_add) <= MaxSniffs
                /\ sniffed' = [p \in CachePaths |-> sniffed[p] + Count(p, pathnames_to_add)]
                /\ IF Locked(c)
                   THEN /\ clast' = CacheCall("scandir", c, scan[t].pathnames,
                                              found_pathnames, pathnames_to_add,
                                              "OperationalError", <<>>)
                        /\ UNCHANGED conns
                   ELSE /\ conns' = [conns EXCEPT ![c] =
                               [open |-> TRUE,
                                dir_entries |-> SubSeq(tables.dir_entries,
                                    Len(committed.dir_entries) + 1, Len(tables.dir_entries)),
                                mime_types |-> SubSeq(tables.mime_types,
                                    Len(committed.mime_types) + 1, Len(tables.mime_types))]]
                        /\ clast' = CacheCall("scandir", c, scan[t].pathnames,
                                              found_pathnames, pathnames_to_add, "none",
                                              scan[t].dir_entries \o dir_entries_to_add)
    /\ scan' = [scan EXCEPT ![t] = NoScan]
    /\ UNCHANGED committed
    /\ CacheOnly

NextCacheRace ==
    \/ \E c \in ConnIds : MetadataDb(c)
    \/ \E t \in Contexts, c \in ConnIds, has_method \in BOOLEAN, path \in Dirs :
          scandir_lookup(t, c, has_method, path)
    \/ \E t \in Contexts : scandir_insert(t)

SpecCacheRace == InitCache /\ [][NextCacheRace]_vars

----------------------------------------------------------------------------
(* Claims about the metadata cache *)

\* C10: over the lifetime of a metadata database each path is classified at
\* most once; in every call that gets as far as classifying, for every list
\* of pathnames, a requested path that has a dir_entries row is not
\* classified and one that has none is classified exactly once.
C10_ClassifiedAtMostOnce ==
    /\ \A p \in CachePaths : sniffed[p] <= 1
    /\ (clast.op \in {"scandir", "get_dir_entries"} /\ clast.err # "AttributeError") =>
          \A p \in Range(clast.pathnames) :
              Count(p, clast.sniffs) = IF p \in clast.found THEN 0 ELSE 1

\* C10 case: one call asked for the same path twice and classified it twice.
C10_Witness ==
    /\ clast.op = "get_dir_entries" /\ clast.err = "none"
    /\ clast.pathnames = << <<"d", "/", "a">>, <<"d", "/", "a">> >>
    /\ Count(<<"d", "/", "a">>, clast.sniffs) = 2

\* The connections other than c that are open.
OthersOpen(c) == {o \in ConnIds \ {c} : conns[o].open}

\* C11: the rows a MetadataDb object inserted are stored durably: when its
\* connection is closed they are in the database file, where a later object
\* opened on the same path finds them.
C11_RowsSurviveClose ==
    [][ clast'.op = "close" =>
          \A k \in 1..Len(conns[clast'.conn].dir_entries) :
              \E j \in 1..Len(committed'.dir_entries) :
                  /\ committed'.dir_entries[j].path = conns[clast'.conn].dir_entries[k].path
                  /\ committed'.dir_entries[j].mime_type_id \in 1..Len(committed'.mime_types) ]_vars

\* C11 case: the only open connection is asked for one path that was
\* classified and inserted before, finds no row and classifies it again.
C11_Witness ==
    /\ clast.op = "get_dir_entries" /\ clast.err = "none"
    /\ clast.pathnames = << <<"d", "/", "a">> >>
    /\ clast.found = {} /\ clast.sniffs = clast.pathnames
    /\ sniffed[<<"d", "/", "a">>] = 2 /\ sniffed[<<"d", "/", "b">>] = 0
    /\ OthersOpen(clast.conn) = {}
    /\ committed = NoTables

\* C12: scandir(path) on an Android-family filesystem returns one entry per
\* immediate child and no path twice, each with the type the file has; a
\* second call returns the same and classifies nothing.
C12_ScandirIdempotent ==
    clast.op = "scandir" =>
        /\ clast.err = "none"
        /\ Len(clast.result) = Len(clast.pathnames)
        /\ {clast.result[k].path : k \in 1..Len(clast.result)} = Range(clast.pathnames)
        /\ \A k \in 1..Len(clast.result) :
              clast.result[k].mime_type = from_path(clast.result[k].path).mime_type

\* C12 case: scandir of a directory holding two files none of which has a
\* row fails.
C12_Witness ==
    /\ clast.op = "scandir" /\ clast.err = "AttributeError"
    /\ Len(clast.pathnames) = 2 /\ clast.found = {}

\* The paths of a sequence of rows or entries, in order.
PathsOf(rows) == [k \in 1..Len(rows) |-> rows[k].path]

\* C28: get_dir_entries(fs, db, pathnames) returns, and its result holds
\* exactly one DirEntry for each requested path and none for any other path;
\* each returned path has a dir_entries row when the call returns, and the
\* entry carries the type the file has.
C28_OneEntryPerRequestedPath ==
    clast.op = "get_dir_entries" =>
        /\ clast.err = "none"
        /\ \A p \in Range(clast.pathnames) : Count(p, PathsOf(clast.result)) = 1
        /\ Range(PathsOf(clast.result)) \subseteq Range(clast.pathnames)
        /\ Range(PathsOf(clast.result)) \subseteq Range(PathsOf(DirEntriesOf(clast.conn)))
        /\ \A k \in 1..Len(clast.result) :
              clast.result[k].mime_type = from_path(clast.result[k].path).mime_type

\* C28 case: a call for one path, all of it served from the cache, returns
\* two entries for it.
C28_Witness ==
    /\ clast.op = "get_dir_entries" /\ clast.err = "none"
    /\ clast.pathnames = << <<"d", "/", "a">> >>
    /\ clast.sniffs = <<>>
    /\ PathsOf(clast.result) = << <<"d", "/", "a">>, <<"d", "/", "a">> >>

\* Whether no value is at two positions of a sequence.
NoRepeats(seq) == \A j, k \in 1..Len(seq) : seq[j] = seq[k] => j = k

\* C29: in the dir_entries table as any open connection reads it no two
\* rows have the same path, and no step changes or removes a row that a
\* connection staying open could read before it.
C29_PathsUniqueAppendOnly ==
    [][\A c \in ConnIds :
          conns'[c].open =>
              /\ NoRepeats(PathsOf(DirEntriesOf(c)'))
              /\ conns[c].open =>
                    /\ Len(DirEntriesOf(c)) <= Len(DirEntriesOf(c)')
                    /\ SubSeq(DirEntriesOf(c)', 1, Len(DirEntriesOf(c))) = DirEntriesOf(c)]_vars

\* C29 case: one call asked for a path with no row twice and left two rows
\* for it.
C29_Witness ==
    /\ clast.op = "get_dir_entries" /\ clast.err = "none"
    /\ clast.found = {}
    /\ Count(<<"d", "/", "b">>, PathsOf(DirEntriesOf(clast.conn))) = 2

\* C30: in the mime_types table as any open connection reads it no two rows
\* hold the same string, and every dir_entries row's mime_type_id is the id
\* of a mime_types row that holds the type of the row's file.
C30_MimeTypesDeduplicated ==
    \A c \in ConnIds :
        conns[c].open =>
            /\ NoRepeats(MimeTypesOf(c))
            /\ \A k \in 1..Len(DirEntriesOf(c)) :
                  /\ DirEntriesOf(c)[k].mime_type_id \in 1..Len(MimeTypesOf(c))
                  /\ MimeTypesOf(c)[DirEntriesOf(c)[k].mime_type_id]
                        = from_path(DirEntriesOf(c)[k].path).mime_type

\* C30 case: one batch of two different paths of one type, none of them in
\* the tables before, left two mime_types rows holding that type.
C30_Witness ==
    /\ clast.op = "get_dir_entries" /\ clast.err = "none"
    /\ clast.pathnames = << <<"d", "/", "a">>, <<"d", "/", "b">> >>
    /\ clast.sniffs = clast.pathnames
    /\ MimeTypesOf(clast.conn) = <<"image/png", "image/png">>
    /\ NoRepeats(PathsOf(DirEntriesOf(clast.conn)))

\* C37: two execution contexts in scandir on the same directory, on one
\* connection or on two, leave at most one dir_entries row per path in what
\* any connection reads, and every scandir that returns gives each child of
\* the directory exactly once.
C37_ConcurrentScandirKeepsOneRow ==
    /\ \A c \in ConnIds : conns[c].open =>
          \A p \in CachePaths : Count(p, PathsOf(DirEntriesOf(c))) <= 1
    /\ (clast.op = "scandir" /\ clast.err = "none") =>
          /\ NoRepeats(PathsOf(clast.result))
          /\ Range(PathsOf(clast.result)) = Range(clast.pathnames)

\* C37 case: both contexts looked the directory up on one connection before
\* either inserted; the second INSERT has just put a second row for each
\* child beside the first context's rows.
C37_Witness ==
    /\ clast.op = "scandir" /\ clast.err = "none" /\ clast.found = {}
    /\ clast.sniffs = << <<"d", "/", "a">>, <<"d", "/", "b">> >>
    /\ PathsOf(conns[clast.conn].dir_entries)
          = << <<"d", "/", "a">>, <<"d", "/", "b">>, <<"d", "/", "a">>, <<"d", "/", "b">> >>
    /\ \A t \in Contexts : scan[t].pc = "idle"
    /\ \A o \in ConnIds \ {clast.conn} : ~conns[o].open

----------------------------------------------------------------------------
(* Opening zip archives: zipsupport.ZippedFilesystem under                  *)
(* IosZippedDeviceFilesystem, and AndroidZippedDeviceFilesystem.__init__.   *)

MaxOpens == 3       \* opens a caller begins

Callers == {"p1", "p2"}

\* An archive is its members in archive order; each lies under a top-level
\* element that is a directory, or is a top-level file itself.
Member(name, top, dir) == [name |-> name, top |-> top, dir |-> dir]
ZeroDirs == << Member("f", "f", FALSE) >>
OneDir == << Member("m/a", "m", TRUE), Member("m/b", "m", TRUE) >>
OneDirAndFile == << Member("f", "f", FALSE), Member("m/a", "m", TRUE) >>
TwoDirs == << Member("n/a", "n", TRUE), Member("m/a", "m", TRUE) >>
Archives == {ZeroDirs, OneDir, OneDirAndFile, TwoDirs}

\* zipfile.Path(zf).iterdir(): the top-level elements in archive order.
TopLevel(members) ==
    LET firsts == SelectSeq([k \in 1..Len(members) |-> k],
                      LAMBDA k : \A j \in 1..(k - 1) : members[j].top # members[k].top)
    IN  [i \in 1..Len(firsts) |->
            [name |-> members[firsts[i]].top, isdir |-> members[firsts[i]].dir]]

TopDirs(members) == SelectSeq(TopLevel(members), LAMBDA element : element.isdir)

\* get_zipfile_main_dir(zf) (zipsupport.py 9-27): the first top-level element
\* that is a directory.
get_zipfile_main_dir(members) ==
    IF TopDirs(members) # <<>>
    THEN [err |-> "none", name |-> TopDirs(members)[1].name]
    ELSE [err |-> "ValueError", name |-> "none"]

\* The orders os.listdir may return a set of names in.
Orders(S) ==
    {order \in [1..Cardinality(S) -> S] :
        \A j, k \in 1..Cardinality(S) : order[j] = order[k] => j = k}

\* zipped_pathname_to_unzipped_dirname (zipsupport.py 59-67): one name per
\* archive pathname.
UnzippedDirname == "_unzipped_z"

NoDir == <<"none">>
IdleCall == [pc |-> "idle", n |-> 0, opens |-> 0, marker0 |-> 0, removed |-> FALSE]

ZipOnly == UNCHANGED <<disk, settings, inst, last, files, mconn, mlast, payloads,
                       committed, conns, sniffed, clast, scan, roots, objs, dlast,
          sqlst, pcall>>

\* What a step leaves in 'zlast': the caller, the step, how the open ended
\* if it did, the directory that backs the new filesystem, how many members
\* this open extracted, the marker it found when it began, and the
\* directory that backed the previous filesystem of the same variant.
ZipCall(p, op, variant, outcome, dir, extracted, marker0) ==
    [caller |-> p, op |-> op, variant |-> variant, outcome |-> outcome, dir |-> dir,
     extracted |-> extracted, marker0 |-> marker0,
     prev |-> IF op = "opened" THEN zlast.backing[variant] ELSE NoDir,
     backing |-> IF op = "opened" /\ outcome = "ok"
                 THEN [zlast.backing EXCEPT ![variant] = dir] ELSE zlast.backing]


\* _is_unzipped() (zipsupport.py 47-48)
_is_unzipped(d) == d.marker # 0

\* IosZippedDeviceFilesystem(id_, root, metadata_db_path) begins:
\* ZippedFilesystem.__init__ has computed the directory name (line 38).
IosZippedOpen(p) ==
    /\ zcall[p].pc = "idle" /\ zcall[p].opens < MaxOpens
    /\ zcall' = [zcall EXCEPT ![p] = [pc |-> "check", n |-> 0, opens |-> @.opens + 1,
                                      marker0 |-> zdisk.marker, removed |-> FALSE]]
    /\ zlast' = ZipCall(p, "begin", "ios", "none", NoDir, 0, zdisk.marker)
    /\ UNCHANGED zdisk
    /\ ZipOnly

\* ZippedFilesystem.__init__, lines 40-42: a directory without the marker is
\* removed.
ZF_RemovePartial(p) ==
    /\ zcall[p].pc = "check"
    /\ zdisk' = IF zdisk.exists /\ ~_is_unzipped(zdisk)
                THEN [zdisk EXCEPT !.exists = FALSE, !.extracted = {}]
                ELSE zdisk
    /\ zcall' = [zcall EXCEPT ![p].pc = "decide",
                              ![p].removed = zdisk.exists /\ ~_is_unzipped(zdisk)]
    /\ zlast' = ZipCall(p, "check", "ios", "none", NoDir, 0, zcall[p].marker0)
    /\ ZipOnly

\* An open that unzips whether or not the marker is there.
MakedirsIgnoresMarker(p) ==
    /\ zcall[p].pc = "decide"
    /\ zcall' = [zcall EXCEPT ![p].pc = "extract"]
    /\ zdisk' = [zdisk EXCEPT !.exists = TRUE]
    /\ zlast' = ZipCall(p, "decide", "ios", "none", NoDir, 0, zcall[p].marker0)
    /\ ZipOnly

\* ZippedFilesystem.__init__, line 44, and _unzip, line 51.
ZF_Makedirs(p) ==
    /\ zcall[p].pc = "decide"
    /\ IF _is_unzipped(zdisk)
       THEN /\ zcall' = [zcall EXCEPT ![p].pc = "root"]
            /\ UNCHANGED zdisk
       ELSE /\ zcall' = [zcall EXCEPT ![p].pc = "extract"]
            /\ zdisk' = [zdisk EXCEPT !.exists = TRUE]
    /\ zlast' = ZipCall(p, "decide", "ios", "none", NoDir, 0, zcall[p].marker0)
    /\ ZipOnly

\* The marker written as soon as one member is out.
ExtractThenMarkerEarly(p) ==
    /\ zcall[p].pc = "extract"
    /\ zdisk' = [zdisk EXCEPT !.exists = TRUE,
                              !.extracted = @ \cup {zdisk.members[zcall[p].n + 1].name}]
    /\ zcall' = [zcall EXCEPT ![p].n = @ + 1, ![p].pc = "marker"]
    /\ zlast' = ZipCall(p, "extract", "ios", "none", NoDir, zcall[p].n + 1, zcall[p].marker0)
    /\ ZipOnly

\* _unzip, lines 53-54: extractall writes the members one after the other.
ZF_Extract(p) ==
    /\ zcall[p].pc = "extract"
    /\ zdisk' = [zdisk EXCEPT !.exists = TRUE,
                              !.extracted = @ \cup {zdisk.members[zcall[p].n + 1].name}]
    /\ zcall' = [zcall EXCEPT ![p].n = @ + 1,
                              ![p].pc = IF zcall[p].n + 1 = Len(zdisk.members)
                                        THEN "marker" ELSE "extract"]
    /\ zlast' = ZipCall(p, "extract", "ios", "none", NoDir, zcall[p].n + 1, zcall[p].marker0)
    /\ ZipOnly

\* _unzip, lines 56-57: the marker holds the time it was written; open()
\* fails when the directory is not there.
ZF_WriteMarker(p) ==
    /\ zcall[p].pc = "marker"
    /\ IF zdisk.exists
       THEN /\ zdisk' = [zdisk EXCEPT !.clock = @ + 1, !.marker = zdisk.clock + 1]
            /\ zcall' = [zcall EXCEPT ![p].pc = "root"]
            /\ zlast' = ZipCall(p, "marker", "ios", "none", NoDir, zcall[p].n,
                                zcall[p].marker0)
       ELSE /\ zcall' = [zcall EXCEPT ![p].pc = "idle"]
            /\ zlast' = ZipCall(p, "opened", "ios", "FileNotFoundError", NoDir, zcall[p].n,
                                zcall[p].marker0)
            /\ UNCHANGED zdisk
    /\ ZipOnly

\* os.listdir(unzipped_dirname) filtered by os.path.isdir: the top-level
\* directories extracted so far, in listing order.
ListedDirs(d) ==
    SelectSeq(d.order,
        LAMBDA name : \E k \in 1..Len(d.members) :
            /\ d.members[k].top = name /\ d.members[k].dir
            /\ d.members[k].name \in d.extracted)

\* IosZippedDeviceFilesystem.__init__, lines 347-356: the first directory
\* listed becomes the root of the filesystem behind.
IosZipped_FindRoot(p) ==
    /\ zcall[p].pc = "root"
    /\ zlast' = IF ~zdisk.exists
                THEN ZipCall(p, "opened", "ios", "FileNotFoundError", NoDir,
                             zcall[p].n, zcall[p].marker0)
                ELSE IF ListedDirs(zdisk) # <<>>
                THEN ZipCall(p, "opened", "ios", "ok",
                             <<UnzippedDirname, ListedDirs(zdisk)[1]>>,
                             zcall[p].n, zcall[p].marker0)
                ELSE ZipCall(p, "opened", "ios", "ValueError", NoDir,
                             zcall[p].n, zcall[p].marker0)
    /\ zcall' = [zcall EXCEPT ![p].pc = "idle"]
    /\ UNCHANGED zdisk
    /\ ZipOnly

\* The open is abandoned where it stands: an exception from the operating
\* system or the archive, or the process ending.
Interrupt(p) ==
    /\ zcall[p].pc \notin {"idle"}
    /\ zcall' = [zcall EXCEPT ![p].pc = "idle"]
    /\ zlast' = ZipCall(p, "interrupted", "ios", "none", NoDir, zcall[p].n, zcall[p].marker0)
    /\ UNCHANGED zdisk
    /\ ZipOnly


\* tempfile.TemporaryDirectory(): a directory no earlier call was given.
TempNames == <<"tmp1", "tmp2", "tmp3", "tmp4", "tmp5", "tmp6">>

\* AndroidZippedDeviceFilesystem(id_, root, metadata_db_path) (android.py
\* 98-111): a new temporary directory, the main directory looked up in the
\* archive, and everything extracted into the temporary directory.
AndroidZippedOpen(p) ==
    /\ zcall[p].pc = "idle" /\ zcall[p].opens < MaxOpens
    /\ zdisk.temps < Len(TempNames)
    /\ zdisk' = [zdisk EXCEPT !.temps = @ + 1]                            \* line 102
    /\ zcall' = [zcall EXCEPT ![p].opens = @ + 1]
    /\ LET main_dir == get_zipfile_main_dir(zdisk.members)               \* line 105
       IN  zlast' = IF main_dir.err # "none"
                    THEN ZipCall(p, "opened", "android", main_dir.err, NoDir, 0,
                                 zdisk.marker)
                    ELSE ZipCall(p, "opened", "android", "ok",           \* lines 106-111
                                 <<TempNames[zdisk.temps + 1], main_dir.name>>,
                                 Len(zdisk.members), zdisk.marker)
    /\ ZipOnly

TopNames(members) == {members[k].top : k \in 1..Len(members)}

\* An archive next to which nothing has been unzipped yet.
InitZip ==
    /\ \E members \in Archives : \E order \in Orders(TopNames(members)) :
          zdisk = [members |-> members, order |-> order, exists |-> FALSE,
                   extracted |-> {}, marker |-> 0, clock |-> 0, temps |-> 0]
    /\ zcall = [p \in Callers |-> IdleCall]
    /\ zlast = [caller |-> "none", op |-> "none", variant |-> "none", outcome |-> "none",
                dir |-> NoDir, extracted |-> 0, marker0 |-> 0, prev |-> NoDir,
                backing |-> [v \in {"ios", "android"} |-> NoDir]]
    /\ EncAtRest /\ ManIdle /\ CacheIdle /\ DevIdle /\ SqlIdle /\ PureIdle

\* One caller at a time opens the archive.
NextZip ==
    \/ IosZippedOpen("p1")
    \/ ZF_RemovePartial("p1")
    \/ ZF_Makedirs("p1")
    \/ ZF_Extract("p1")
    \/ ZF_WriteMarker("p1")
    \/ IosZipped_FindRoot("p1")
    \/ Interrupt("p1")
    \/ AndroidZippedOpen("p1")

SpecZip == InitZip /\ [][NextZip]_vars

\* Two callers open the archive, their steps interleaved; the removal of a
\* directory (lines 40-42) is taken as one step.
NextZipRace ==
    \/ \E p \in Callers : IosZippedOpen(p)
    \/ \E p \in Callers : ZF_RemovePartial(p)
    \/ \E p \in Callers : ZF_Makedirs(p)
    \/ \E p \in Callers : ZF_Extract(p)
    \/ \E p \in Callers : ZF_WriteMarker(p)
    \/ \E p \in Callers : IosZipped_FindRoot(p)

SpecZipRace == InitZip /\ [][NextZipRace]_vars

----------------------------------------------------------------------------
(* Claims about opening zip archives *)

AllExtracted(d) == d.extracted = {d.members[k].name : k \in 1..Len(d.members)}

C14_SelfHealing ==
    /\ [](_is_unzipped(zdisk) => (zdisk.exists /\ AllExtracted(zdisk)))
    /\ [][ /\ (zlast'.op = "check" /\ zdisk.exists /\ ~_is_unzipped(zdisk)) =>
                (~zdisk'.exists /\ zdisk'.extracted = {})
           /\ (zlast'.op = "opened" /\ zlast'.variant = "ios") =>
                (_is_unzipped(zdisk') /\ AllExtracted(zdisk')
                   /\ (zlast'.marker0 = 0 => zlast'.extracted = Len(zdisk.members)))
           /\ zlast'.op = "interrupted" => zdisk' = zdisk
           /\ zdisk'.marker # zdisk.marker =>
                (zlast'.op = "marker" /\ AllExtracted(zdisk)
                   /\ zcall[zlast'.caller].n = Len(zdisk.members)) ]_vars

C14_Witness ==
    /\ zlast.op = "opened" /\ zlast.variant = "ios" /\ zlast.outcome = "ok"
    /\ zcall["p1"].removed /\ zlast.extracted = Len(zdisk.members)
    /\ _is_unzipped(zdisk)

\* C15: an archive whose root holds no directory, or more than one, is
\* refused when it is opened, by both zipped variants.
C15_ExactlyOneTopLevelDir ==
    (zlast.op = "opened" /\ Len(TopDirs(zdisk.members)) # 1) =>
        zlast.outcome = "ValueError"

\* C15 case: an archive with two top-level directories opened by the
\* Android variant, which takes the first.
C15_Witness ==
    /\ zlast.op = "opened" /\ zlast.variant = "android" /\ zlast.outcome = "ok"
    /\ zdisk.members = TwoDirs /\ zlast.dir[2] = "n"

\* C31: with two callers opening the archive in any interleaving, while the
\* marker is there the directory is there and holds every member of the
\* archive, and an open that succeeds is backed by such a directory.
C31_RaceResolved ==
    /\ _is_unzipped(zdisk) => (zdisk.exists /\ AllExtracted(zdisk))
    /\ (zlast.op = "opened" /\ zlast.outcome = "ok") =>
          (zdisk.exists /\ AllExtracted(zdisk))

\* C31 case: a caller that had extracted the whole archive wrote the marker
\* after the other caller had removed the directory and made it again; the
\* marker stands in a directory that lacks a member.
C31_Witness ==
    /\ zlast.op = "marker" /\ zlast.extracted = Len(zdisk.members)
    /\ _is_unzipped(zdisk) /\ ~AllExtracted(zdisk)
    /\ \E o \in Callers \ {zlast.caller} : zcall[o].removed /\ zcall[o].pc = "extract"

\* ---------------------------------------------------------------------------
\* Device roots: create(), the constructors, the settings flags and the
\* is_device_filesystem() probes of the Android and iOS variants
\* (android.py, ios.py).  Specification SpecDevice.
\* ---------------------------------------------------------------------------

MaxLocks == 2

Variants == {"android", "android_zipped", "ios", "ios_zipped", "ios_encrypted"}

\* The paths a caller hands to a constructor or to create().
DevicePaths == {"new", "adir", "idir", "azip", "izip"}
\* tempfile.TemporaryDirectory() of AndroidZippedDeviceFilesystem.__init__:
\* a directory that did not exist before the call.
TempRoots == {"tmp1", "tmp2"}
\* The directory ZippedFilesystem materialises next to an iOS archive.
UnzippedRoot == "unzipped"
AllRoots == DevicePaths \cup TempRoots \cup {UnzippedRoot}

Root(present, skeleton, made) ==
    [exists |-> present, skeleton |-> skeleton, made |-> made, flags |-> NoSettings]
NoRoot == Root(FALSE, "none", "none")

NoObject == [alive |-> FALSE, variant |-> "none", device |-> "none", sroot |-> "none"]
Object(variant, device, sroot) ==
    [alive |-> TRUE, variant |-> variant, device |-> device, sroot |-> sroot]

\* What a probed path can be: nothing, a file that is no zip archive, a
\* directory with some of the marker files, or a zip archive whose main
\* directory holds some of them.
NoProbe == [kind |-> "none"]
DirProbes ==
    [kind : {"dir"}, android : BOOLEAN, manifest_db : BOOLEAN, info_plist : BOOLEAN,
     manifest_plist : {"absent", "clear", "encrypted", "garbage"}]
ZipProbes ==
    [kind : {"zip"}, members : Archives, android : BOOLEAN, ios : BOOLEAN]
Probes == {[kind |-> "missing"], [kind |-> "file"]} \cup DirProbes \cup ZipProbes

\* The roots create() is tried on: a fresh path, an existing directory and an
\* existing file.  The template is read by the iOS create() only.
CreatePaths == {"new", "adir", "izip"}
Templates(cls) == IF cls \in {"ios", "ios_zipped"} THEN {"None", "ios", "other"} ELSE {"None"}

NeverLocked == [d \in DevicePaths |-> "none"]

DevOnly == UNCHANGED <<disk, settings, inst, last, files, mconn, mlast, payloads,
                       committed, conns, sniffed, clast, scan, zdisk, zcall, zlast,
                       sqlst, pcall>>

\* dlast describes the call just made.  locks is the argument of the most
\* recent lock() made through each device path, nlocks the number of lock()
\* calls so far.
DevCall(op, variant, arg, outcome, probe) ==
    [op |-> op, variant |-> variant, arg |-> arg, outcome |-> outcome,
     probe |-> probe, locks |-> dlast.locks, nlocks |-> dlast.nlocks]

Bool(b) == IF b THEN "True" ELSE "False"

\* DeviceSettings.is_subset_fs / is_locked / is_encrypted: unset reads false.
is_flag(sroot, key) == roots[sroot].flags[key] = "1"

\* `if os.path.exists(root): raise FileExistsError(root)`
CreateOverExisting(root) == FALSE
create_refuses(root) == roots[root].exists

\* `obj._settings.set_subset_fs(True)`
CreatedFlagsUntouched(flags) == flags
created_flags(flags) == SetSetting(flags, "subset_fs", TRUE)

\* cls.create(id_, root, metadata_db_path, template): the zipped classes
\* delegate to the plain ones, IosEncryptedDeviceFilesystem.create raises.
\* An iOS create() with a template that is no iOS filesystem fails its
\* assertion after root and Manifest.db were written.
Device_create(cls, root, template) ==
    LET android == cls \in {"android", "android_zipped"}
        plain == IF android THEN "android" ELSE "ios"
    IN  /\ IF cls = "ios_encrypted"
           THEN /\ dlast' = DevCall("create", cls, root, "NotImplementedError", NoProbe)
                /\ UNCHANGED <<roots, objs>>
           ELSE IF create_refuses(root)
           THEN /\ dlast' = DevCall("create", cls, root, "FileExistsError", NoProbe)
                /\ UNCHANGED <<roots, objs>>
           ELSE IF ~android /\ template = "other"
           THEN /\ roots' = [roots EXCEPT ![root] =
                                [@ EXCEPT !.exists = TRUE, !.skeleton = "ios-noinfo",
                                          !.made = "partial"]]
                /\ dlast' = DevCall("create", cls, root, "AssertionError", NoProbe)
                /\ UNCHANGED objs
           ELSE /\ roots' = [roots EXCEPT ![root] =
                                [@ EXCEPT !.exists = TRUE, !.skeleton = plain,
                                          !.made = "create",
                                          !.flags = created_flags(@)]]
                /\ objs' = Object(plain, root, root)
                /\ dlast' = DevCall("create", cls, root, "ok", NoProbe)
        /\ DevOnly

\* The directory a constructor hands to DeviceSettings.
UnusedTemps == {t \in TempRoots : ~roots[t].exists}
NextTemp == IF "tmp1" \in UnusedTemps THEN "tmp1" ELSE "tmp2"
SettingsRoot(variant, device) ==
    CASE variant = "android_zipped" -> NextTemp
      [] variant = "ios_zipped" -> UnzippedRoot
      [] OTHER -> device

\* The constructors: AndroidDeviceFilesystem and IosDeviceFilesystem on a
\* directory root (the iOS one reads Manifest.db only), the zipped classes on
\* an archive.
Device_open(variant, device) ==
    /\ \/ variant = "android" /\ roots[device].skeleton = "android"
       \/ variant = "ios" /\ roots[device].skeleton \in {"ios", "ios-noinfo"}
       \/ variant = "android_zipped" /\ device = "azip" /\ UnusedTemps # {}
       \/ variant = "ios_zipped" /\ device = "izip"
    /\ LET sroot == SettingsRoot(variant, device)
       IN  /\ roots' = [roots EXCEPT ![sroot] =
                           [@ EXCEPT !.exists = TRUE,
                                     !.skeleton = CASE variant = "android_zipped" -> "android"
                                                    [] variant = "ios_zipped" -> "ios"
                                                    [] OTHER -> @,
                                     !.made = IF @ = "none" THEN "found" ELSE @]]
           /\ objs' = Object(variant, device, sroot)
    /\ dlast' = DevCall("open", variant, device, "ok", NoProbe)
    /\ DevOnly

\* lock(locked): self._settings.set_locked(locked), in every variant.
Device_lock(locked) ==
    /\ objs.alive
    /\ dlast.nlocks < MaxLocks
    /\ roots' = [roots EXCEPT ![objs.sroot].flags = SetSetting(@, "locked", locked)]
    /\ dlast' = [DevCall("lock", objs.variant, objs.device, "ok", NoProbe)
                    EXCEPT !.locks[objs.device] = IF locked THEN "1" ELSE "0",
                           !.nlocks = @ + 1]
    /\ UNCHANGED objs
    /\ DevOnly

Device_is_locked ==
    /\ objs.alive
    /\ dlast' = DevCall("is_locked", objs.variant, objs.device,
                        Bool(is_flag(objs.sroot, "locked")), NoProbe)
    /\ UNCHANGED <<roots, objs>>
    /\ DevOnly

Device_is_subset_filesystem ==
    /\ objs.alive
    /\ dlast' = DevCall("is_subset_filesystem", objs.variant, objs.device,
                        Bool(is_flag(objs.sroot, "subset_fs")), NoProbe)
    /\ UNCHANGED <<roots, objs>>
    /\ DevOnly

\* create_file and sqlite3_create of the zipped classes.
Zipped_create_file ==
    /\ objs.alive /\ objs.variant \in {"android_zipped", "ios_zipped"}
    /\ dlast' = DevCall("create_file", objs.variant, objs.device,
                        "NotImplementedError", NoProbe)
    /\ UNCHANGED <<roots, objs>>
    /\ DevOnly

Zipped_sqlite3_create ==
    /\ objs.alive /\ objs.variant \in {"android_zipped", "ios_zipped"}
    /\ dlast' = DevCall("sqlite3_create", objs.variant, objs.device,
                        "NotImplementedError", NoProbe)
    /\ UNCHANGED <<roots, objs>>
    /\ DevOnly

_ios_filesystem_is_encrypted(probe) ==
    CASE probe.manifest_plist = "absent" -> "False"
      [] probe.manifest_plist = "garbage" -> "InvalidFileException"
      [] probe.manifest_plist = "clear" -> "False"
      [] probe.manifest_plist = "encrypted" -> "True"

\* The value or the exception of cls.is_device_filesystem(path).
ProbeOutcome(cls, probe) ==
    CASE cls = "android" -> Bool(probe.kind = "dir" /\ probe.android)
      [] cls \in {"ios", "ios_encrypted"} ->
            IF probe.kind = "dir" /\ probe.manifest_db /\ probe.info_plist
            THEN LET enc == _ios_filesystem_is_encrypted(probe)
                 IN  IF enc \notin {"True", "False"} THEN enc
                     ELSE IF cls = "ios" THEN Bool(enc = "False") ELSE enc
            ELSE "False"
      [] cls \in {"android_zipped", "ios_zipped"} ->
            IF probe.kind # "zip" THEN "False"
            ELSE IF get_zipfile_main_dir(probe.members).err # "none"
                 THEN get_zipfile_main_dir(probe.members).err
                 ELSE Bool(IF cls = "android_zipped" THEN probe.android ELSE probe.ios)

\* A class method that reads only the probed path: it is exercised while no
\* filesystem object is in use, which loses none of its outcomes.
is_device_filesystem(cls, probe) ==
    /\ ~objs.alive
    /\ dlast' = DevCall("is_device_filesystem", cls, "none", ProbeOutcome(cls, probe), probe)
    /\ UNCHANGED <<roots, objs>>
    /\ DevOnly

InitDevice ==
    /\ roots = [r \in AllRoots |->
                  CASE r = "adir" -> Root(TRUE, "android", "found")
                    [] r = "idir" -> Root(TRUE, "ios", "found")
                    [] r \in {"azip", "izip"} -> Root(TRUE, "zip", "found")
                    [] OTHER -> NoRoot]
    /\ objs = NoObject
    /\ dlast = [op |-> "none", variant |-> "none", arg |-> "none", outcome |-> "none",
                probe |-> NoProbe, locks |-> NeverLocked, nlocks |-> 0]
    /\ EncAtRest /\ ManIdle /\ CacheIdle /\ ZipIdle /\ SqlIdle /\ PureIdle

NextDevice ==
    \/ \E cls \in Variants, root \in CreatePaths :
          \E template \in Templates(cls) : Device_create(cls, root, template)
    \/ \E variant \in Variants, device \in DevicePaths : Device_open(variant, device)
    \/ \E locked \in BOOLEAN : Device_lock(locked)
    \/ Device_is_locked
    \/ Device_is_subset_filesystem
    \/ Zipped_create_file
    \/ Zipped_sqlite3_create
    \/ \E cls \in Variants, probe \in Probes : is_device_filesystem(cls, probe)

SpecDevice == InitDevice /\ [][NextDevice]_vars

\* C16: create() of the Android and iOS classes (the zipped ones delegate)
\* on a root that already exists raises FileExistsError, and that call leaves
\* every root, every stored setting and the object in use as they were.
C16_CreateOnExistingRootFails ==
    [][(/\ dlast'.op = "create"
        /\ dlast'.variant # "ios_encrypted"
        /\ roots[dlast'.arg].exists)
       => (/\ dlast'.outcome = "FileExistsError"
           /\ roots' = roots
           /\ objs' = objs)]_vars

C16_Witness ==
    /\ dlast.op = "create" /\ dlast.variant = "ios_zipped" /\ dlast.arg = "new"
    /\ dlast.outcome = "FileExistsError"
    /\ roots["new"].skeleton = "android"

\* C17: the object create() returns at a fresh root is a plain one whose
\* is_subset_filesystem() is true and whose is_locked() is false;
\* is_subset_filesystem() answers true exactly on roots made by a successful
\* create(), so false on a filesystem that was only opened.
C17_CreatedIsSubsetOpenedIsNot ==
    /\ (dlast.op = "create" /\ dlast.outcome = "ok")
          => /\ objs.alive /\ objs.device = dlast.arg /\ objs.sroot = dlast.arg
             /\ objs.variant = (IF dlast.variant \in {"android", "android_zipped"}
                                THEN "android" ELSE "ios")
             /\ is_flag(objs.sroot, "subset_fs")
             /\ ~is_flag(objs.sroot, "locked")
    /\ dlast.op = "is_subset_filesystem"
          => dlast.outcome = Bool(roots[objs.sroot].made = "create")
    /\ (dlast.op = "is_locked" /\ roots[objs.sroot].made = "create"
          /\ dlast.locks[objs.device] = "none")
          => dlast.outcome = "False"

C17_Witness ==
    /\ dlast.op = "is_subset_filesystem" /\ dlast.outcome = "True"
    /\ objs.variant = "ios" /\ objs.device = "new"

\* C18: is_locked() answers the argument of the most recent lock() made on
\* the same root through any instance, false if there was none; lock()
\* changes no other flag.
C18_LockStateSurvivesReopen ==
    /\ dlast.op = "is_locked"
          => dlast.outcome = Bool(dlast.locks[objs.device] = "1")
    /\ dlast.op = "lock"
          => \A r \in AllRoots : roots[r].flags["encrypted"] = "none"

C18_Witness ==
    /\ dlast.op = "is_locked" /\ dlast.outcome = "False"
    /\ objs.variant = "android_zipped" /\ objs.sroot = "tmp2"
    /\ dlast.locks["azip"] = "1"

\* C19: create_file and sqlite3_create of the encrypted variant raise
\* NotImplementedError on every call, as those of the zipped variants do.
C19_WriteOpsUnsupported ==
    last.op \in {"create_file", "sqlite3_create"} => last.outcome = "NotImplementedError"

C19_Witness ==
    /\ last.op = "sqlite3_create" /\ last.outcome = "handle"
    /\ inst.converter = "set"

\* C20: is_device_filesystem(path) of every class returns a boolean for
\* every path and never raises.
C20_ProbeNeverRaises ==
    dlast.op = "is_device_filesystem" => dlast.outcome \in {"True", "False"}

C20_Witness ==
    /\ dlast.op = "is_device_filesystem" /\ dlast.variant = "ios"
    /\ dlast.probe.kind = "dir" /\ dlast.probe.manifest_plist = "garbage"
    /\ dlast.outcome = "InvalidFileException"

\* ---------------------------------------------------------------------------
\* sqlite connections: sqlite3_connect_filename (sql.py), which every
\* variant's sqlite3_connect and sqlite3_create end in.  Specification SpecSql.
\* ---------------------------------------------------------------------------

MaxNameLen == 2

\* File names may hold the characters a URI treats specially.
NameChars == {"a", "#", "?"}
RECURSIVE NamesOfLen(_)
NamesOfLen(n) ==
    IF n = 0 THEN {<<>>}
    ELSE {<<c>> \o rest : c \in NameChars, rest \in NamesOfLen(n - 1)}
SqlNames == UNION {NamesOfLen(n) : n \in 1..MaxNameLen}
\* Absolute paths of files in the root directory, and the same names given
\* relative to the working directory.
AbsolutePaths == {<<"/">> \o name : name \in SqlNames}
SqlPaths == AbsolutePaths \cup SqlNames

\* The database files that may be on disk before the first call.
InitialDatabases == {<<"/", "a">>, <<"/", "a", "#">>, <<"/", "a", "?">>, <<"/", "#">>}

\* Position of the first c in s, 0 if there is none.
IndexOfChar(s, c) ==
    IF c \in Range(s)
    THEN CHOOSE k \in 1..Len(s) : s[k] = c /\ \A h \in 1..(k - 1) : s[h] # c
    ELSE 0
Before(s, c) == IF IndexOfChar(s, c) = 0 THEN s ELSE SubSeq(s, 1, IndexOfChar(s, c) - 1)
After(s, c) == IF IndexOfChar(s, c) = 0 THEN <<>> ELSE SubSeq(s, IndexOfChar(s, c) + 1, Len(s))

RECURSIVE SplitAll(_, _)
SplitAll(s, c) ==
    IF IndexOfChar(s, c) = 0 THEN <<s>>
    ELSE <<Before(s, c)>> \o SplitAll(After(s, c), c)

\* `params = "?mode=ro&immutable=1" if read_only else ""`
ReadOnlyParams ==
    <<"?", "m", "o", "d", "e", "=", "r", "o", "&",
      "i", "m", "m", "u", "t", "a", "b", "l", "e", "=", "1">>
UriScheme == <<"f", "i", "l", "e", ":", "/", "/">>

\* f"file://{path}{params}"
SqlUri(path, read_only) ==
    UriScheme \o path \o (IF read_only THEN ReadOnlyParams ELSE <<>>)

\* sqlite's reading of a file: URI.  The authority runs to the first '/' and
\* must be empty; a '#' ends the URI; the first '?' ends the file name;
\* the query is key=value pairs separated by '&'.
ParseUri(uri) ==
    LET rest == SubSeq(uri, Len(UriScheme) + 1, Len(uri))
        authority == Before(rest, "/")
        body == Before(SubSeq(rest, Len(authority) + 1, Len(rest)), "#")
        query == SplitAll(After(body, "?"), "&")
        Has(key, value) ==
            \E k \in 1..Len(query) :
                Before(query[k], "=") = key /\ After(query[k], "=") = value
    IN  [err |-> IF authority # <<>> THEN "invalid uri authority" ELSE "none",
         file |-> Before(body, "?"),
         ro |-> Has(<<"m", "o", "d", "e">>, <<"r", "o">>),
         immutable |-> Has(<<"i", "m", "m", "u", "t", "a", "b", "l", "e">>, <<"1">>)]

NoConnection ==
    [open |-> FALSE, path |-> <<>>, read_only |-> FALSE, target |-> <<>>,
     writable |-> FALSE, outcome |-> "none"]

SqlOnly == UNCHANGED <<disk, settings, inst, last, files, mconn, mlast, payloads,
                       committed, conns, sniffed, clast, scan, zdisk, zcall, zlast,
                       roots, objs, dlast, pcall>>

\* sqlite3_connect_filename(path, read_only) followed by sqlite3.connect(uri,
\* uri=True), which opens read-write and creating unless the URI says mode=ro.
sqlite3_connect_filename(path, read_only) ==
    /\ LET u == ParseUri(SqlUri(path, read_only))
           isfile == u.file \in AbsolutePaths
           there == u.file \in sqlst.files
           fails == u.err # "none" \/ ~isfile \/ (u.ro /\ ~there)
       IN  sqlst' =
             IF fails
             THEN [sqlst EXCEPT !.conn = [NoConnection EXCEPT
                        !.path = path, !.read_only = read_only,
                        !.outcome = IF u.err # "none" THEN u.err
                                    ELSE "unable to open database file"],
                      !.step = "connect"]
             ELSE [files |-> sqlst.files \cup {u.file},
                   changed |-> IF there THEN sqlst.changed
                               ELSE sqlst.changed \cup {u.file},
                   conn |-> [open |-> TRUE, path |-> path, read_only |-> read_only,
                             target |-> u.file,
                             writable |-> ~u.ro /\ ~u.immutable,
                             outcome |-> "ok"],
                   step |-> "connect"]
    /\ SqlOnly

\* A statement that writes, executed and committed through the connection.
execute_write ==
    /\ sqlst.conn.open
    /\ sqlst' = IF sqlst.conn.writable
                THEN [sqlst EXCEPT !.changed = @ \cup {sqlst.conn.target},
                                   !.conn.outcome = "ok", !.step = "write"]
                ELSE [sqlst EXCEPT !.conn.outcome = "OperationalError", !.step = "write"]
    /\ SqlOnly

close_connection ==
    /\ sqlst.conn.open
    /\ sqlst' = [sqlst EXCEPT !.conn = NoConnection, !.step = "close"]
    /\ SqlOnly

InitSql ==
    /\ \E present \in SUBSET InitialDatabases :
          sqlst = [files |-> present, changed |-> {}, conn |-> NoConnection,
                   step |-> "none"]
    /\ EncAtRest /\ ManIdle /\ CacheIdle /\ ZipIdle /\ DevIdle /\ PureIdle

NextSql ==
    \/ \E path \in SqlPaths, read_only \in BOOLEAN : sqlite3_connect_filename(path, read_only)
    \/ execute_write
    \/ close_connection

SpecSql == InitSql /\ [][NextSql]_vars

\* C21: a connection made with read_only = True refuses every write, and
\* neither making it nor executing statements through it creates or changes
\* a file.
C21_ReadOnlyRefusesWrites ==
    /\ (sqlst.conn.open /\ sqlst.conn.read_only) => ~sqlst.conn.writable
    /\ (sqlst.conn.open /\ sqlst.conn.read_only) => sqlst.conn.target = sqlst.conn.path

C21_Witness ==
    /\ sqlst.conn.open /\ sqlst.conn.read_only
    /\ sqlst.conn.path = <<"/", "a", "#">>
    /\ sqlst.step = "write" /\ sqlst.conn.outcome = "ok"
    /\ <<"/", "a">> \in sqlst.changed

\* ---------------------------------------------------------------------------
\* Functions of their arguments alone: FSLibFilesystem.dirname and basename
\* (fslibfilesystem.py 17-27) and DirEntry.from_path (direntry.py 39-60).
\* Specification SpecPure.
\* ---------------------------------------------------------------------------

MaxPathLen == 3

PathChars == {"/", "a", "b"}
RECURSIVE PathsOfLen(_)
PathsOfLen(n) ==
    IF n = 0 THEN {<<>>}
    ELSE {<<c>> \o rest : c \in PathChars, rest \in PathsOfLen(n - 1)}
Pathnames == UNION {PathsOfLen(n) : n \in 0..MaxPathLen}

\* pathname.rindex('/')
RIndex(pathname) ==
    CHOOSE k \in 1..Len(pathname) :
        pathname[k] = "/" /\ \A j \in (k + 1)..Len(pathname) : pathname[j] # "/"

DirnameEmptyForBareName(pathname) ==
    IF "/" \notin Range(pathname) THEN <<>>
    ELSE SubSeq(pathname, 1, RIndex(pathname) - 1)

dirname(pathname) ==
    IF "/" \notin Range(pathname) THEN <<"/">>
    ELSE SubSeq(pathname, 1, RIndex(pathname) - 1)

basename(pathname) ==
    IF "/" \notin Range(pathname) THEN pathname
    ELSE SubSeq(pathname, RIndex(pathname) + 1, Len(pathname))

\* What fs.stat, the first bytes read, filetype.guess on them and
\* mimetypes.guess_type on the name can be for a path.  Nothing is sniffed
\* in an empty file.
LiveFiles ==
    {f \in [isdir : BOOLEAN, isreg : BOOLEAN, first_bytes : {"", "x"},
            filetype : {"None", "image/png"}, guess_type : {"None", "text/plain"}] :
        /\ ~(f.isdir /\ f.isreg)
        /\ f.first_bytes = "" => f.filetype = "None"}

NoFile == [isdir |-> FALSE, isreg |-> FALSE, first_bytes |-> "",
           filetype |-> "None", guess_type |-> "None"]

PureOnly == UNCHANGED <<disk, settings, inst, last, files, mconn, mlast, payloads,
                        committed, conns, sniffed, clast, scan, zdisk, zcall, zlast,
                        roots, objs, dlast, sqlst>>

\* fs.dirname(pathname); the basename taken of the same pathname before, if
\* any, is kept beside it.
Call_dirname(pathname) ==
    /\ pcall' = [fn |-> "dirname", pathname |-> pathname,
                 dirname |-> dirname(pathname), has_dirname |-> TRUE,
                 basename |-> IF pcall.pathname = pathname THEN pcall.basename ELSE <<>>,
                 has_basename |-> pcall.pathname = pathname /\ pcall.has_basename,
                 file |-> NoFile, mime_type |-> "none"]
    /\ PureOnly

Call_basename(pathname) ==
    /\ pcall' = [fn |-> "basename", pathname |-> pathname,
                 basename |-> basename(pathname), has_basename |-> TRUE,
                 dirname |-> IF pcall.pathname = pathname THEN pcall.dirname ELSE <<>>,
                 has_dirname |-> pcall.pathname = pathname /\ pcall.has_dirname,
                 file |-> NoFile, mime_type |-> "none"]
    /\ PureOnly

\* DirEntry.from_path(fs, path) on a path that holds the file f.
Call_from_path(pathname, f) ==
    /\ pcall' = [fn |-> "from_path", pathname |-> pathname,
                 dirname |-> <<>>, has_dirname |-> FALSE,
                 basename |-> <<>>, has_basename |-> FALSE,
                 file |-> f, mime_type |-> MimeTypeOf(f)]
    /\ PureOnly

InitPure ==
    /\ pcall = [fn |-> "none", pathname |-> <<>>,
                dirname |-> <<>>, has_dirname |-> FALSE,
                basename |-> <<>>, has_basename |-> FALSE,
                file |-> NoFile, mime_type |-> "none"]
    /\ EncAtRest /\ ManIdle /\ CacheIdle /\ ZipIdle /\ DevIdle /\ SqlIdle

NextPure ==
    \/ \E pathname \in Pathnames : Call_dirname(pathname)
    \/ \E pathname \in Pathnames : Call_basename(pathname)
    \/ \E f \in LiveFiles : Call_from_path(<<"d", "/", "a">>, f)

SpecPure == InitPure /\ [][NextPure]_vars

\* C23 as stated: for every pathname the two parts joined by '/' give the
\* pathname back.
C23_RecombineAll ==
    (pcall.has_dirname /\ pcall.has_basename)
        => pcall.dirname \o <<"/">> \o pcall.basename = pcall.pathname

\* C23: for a pathname that holds a '/' the two parts joined by '/' give the
\* pathname back; for one that holds none, dirname is "/" and basename is
\* the pathname itself.
C23_RecombineWithSlash ==
    (pcall.has_dirname /\ pcall.has_basename) =>
        IF \E k \in 1..Len(pcall.pathname) : pcall.pathname[k] = "/"
        THEN pcall.dirname \o <<"/">> \o pcall.basename = pcall.pathname
        ELSE pcall.dirname = <<"/">> /\ pcall.basename = pcall.pathname

C23_Witness ==
    /\ pcall.has_dirname /\ pcall.has_basename
    /\ pcall.pathname = <<"/", "a", "b">>
    /\ pcall.dirname = <<>> /\ pcall.basename = <<"a", "b">>

\* C24: from_path gives a directory 'inode/directory'; a regular file the
\* cannot-determine sentinel when it is empty, else the sniffed type when
\* there is one, else the extension guess when there is one, else the
\* sentinel; any other kind the sentinel; never the not-yet-determined one.
C24_DecisionOrder ==
    pcall.fn = "from_path" =>
        LET f == pcall.file
        IN  /\ f.isdir => pcall.mime_type = "inode/directory"
            /\ (f.isreg /\ f.first_bytes = "")
                  => pcall.mime_type = "rime/mime-type-cannot-determine"
            /\ (f.isreg /\ f.first_bytes # "" /\ f.filetype # "None")
                  => pcall.mime_type = f.filetype
            /\ (f.isreg /\ f.first_bytes # "" /\ f.filetype = "None"
                  /\ f.guess_type # "None") => pcall.mime_type = f.guess_type
            /\ (f.isreg /\ f.first_bytes # "" /\ f.filetype = "None"
                  /\ f.guess_type = "None")
                  => pcall.mime_type = "rime/mime-type-cannot-determine"
            /\ (~f.isdir /\ ~f.isreg)
                  => pcall.mime_type = "rime/mime-type-cannot-determine"
            /\ pcall.mime_type # MIME_TYPE_NOT_YET_DETERMINED

\* C24 case: an empty regular file whose name has a known extension.
C24_Witness ==
    /\ pcall.fn = "from_path"
    /\ pcall.file.isreg /\ pcall.file.first_bytes = ""
    /\ pcall.file.guess_type = "text/plain"
    /\ pcall.mime_type = "rime/mime-type-cannot-determine"

----------------------------------------------------------------------------
(* The zipped variants beside their plain counterparts: the read operations *)
(* of AndroidZippedDeviceFilesystem and IosZippedDeviceFilesystem and those *)
(* of AndroidDeviceFilesystem and IosDeviceFilesystem constructed on the    *)
(* directory the archive was extracted to.  Specification SpecView.         *)

ReadOpNames == {"scandir", "exists", "getsize", "open", "sqlite3_connect", "is_locked",
                "is_subset_filesystem", "stat", "dirname", "basename"}

ViewPaths == {<<"x", "/", "y">>, <<"a", "/", "c", "/", "d">>, <<"a", "c">>}

\* What the extracted top-level directory holds: the files below it by
\* their path from it, and, for an iOS backup, the rows of its Manifest.db.
ViewTrees ==
    { [files |-> {}, rows |-> <<>>],
      [files |-> {<<"x", "/", "y">>, <<"a", "b", "/", "a", "b", "1", "2">>},
       rows |-> << Row(<<"a", "b", "1", "2">>, <<"a">>, <<"c", "/", "d">>) >>],
      [files |-> {<<"a", "c">>}, rows |-> <<>>] }

\* The directories a DeviceSettings object may be made on.
SettingsDirs == {"extracted", "beside_archive"}

\* How a call ends: the exception raised if any, else what is returned: a
\* value, or the file or database opened and the mode it is opened in.
Ret(err, kind, path, mode) == [err |-> err, kind |-> kind, path |-> path, mode |-> mode]

\* fs.osfs.OSFS(root): exists, getsize and open(path, mode) on the tree.
OSFS(tree, op, path, mode) ==
    CASE op = "exists" -> Ret("none", Bool(path \in tree.files), <<>>, "")
      [] op = "getsize" -> IF path \in tree.files THEN Ret("none", "size", path, "")
                           ELSE Ret("ResourceNotFound", "", path, "")
      [] op = "open" -> IF path \in tree.files THEN Ret("none", "file", path, mode)
                        ELSE Ret("ResourceNotFound", "", path, "")

\* DeviceSettings.is_locked / is_subset_fs on the store of a directory.
SettingsRead(flags, op) ==
    Ret("none", Bool(flags[IF op = "is_locked" THEN "locked" ELSE "subset_fs"] = "1"),
        <<>>, "")

\* FSLibFilesystem (fslibfilesystem.py 17-52): scandir hands the children to
\* the metadata cache, sqlite3_connect the system path to the connector.
FSLibFilesystem_read(tree, op, path, read_only) ==
    CASE op = "dirname" -> Ret("none", "str", dirname(path), "")
      [] op = "basename" -> Ret("none", "str", basename(path), "")
      [] op \in {"exists", "getsize"} -> OSFS(tree, op, path, "")
      [] op = "open" -> OSFS(tree, "open", path, "rb")
      [] op = "stat" -> IF path \in tree.files THEN Ret("none", "stat_result", path, "")
                        ELSE Ret("FileNotFoundError", "", path, "")
      [] op = "scandir" -> Ret("none", "get_dir_entries_and_update_db", path, "")
      [] op = "sqlite3_connect" ->
            Ret("none", "sqlite3_connect_filename", path, IF read_only THEN "ro" ELSE "rw")

\* AndroidDeviceFilesystem (android.py 44-84) on the directory.
AndroidDeviceFilesystem_read(tree, flags, op, path, read_only) ==
    IF op \in {"is_locked", "is_subset_filesystem"} THEN SettingsRead(flags, op)
    ELSE FSLibFilesystem_read(tree, op, path, read_only)

\* An open in the default mode of OSFS.open, which is text.
AndroidZippedOpensAsText(tree, flags, op, path, read_only) ==
    IF op \in {"is_locked", "is_subset_filesystem"} THEN SettingsRead(flags, op)
    ELSE IF op \in {"exists", "getsize"} THEN OSFS(tree, op, path, "")
    ELSE IF op = "open" THEN OSFS(tree, "open", path, "r")
    ELSE FSLibFilesystem_read(tree, op, path, read_only)

\* AndroidZippedDeviceFilesystem (android.py 128-168): exists, getsize and
\* open go to the OSFS object, the rest to the FSLibFilesystem.
AndroidZippedDeviceFilesystem_read(tree, flags, op, path, read_only) ==
    IF op \in {"is_locked", "is_subset_filesystem"} THEN SettingsRead(flags, op)
    ELSE IF op \in {"exists", "getsize"} THEN OSFS(tree, op, path, "")
    ELSE IF op = "open" THEN OSFS(tree, "open", path, "rb")
    ELSE FSLibFilesystem_read(tree, op, path, read_only)

\* IosDeviceFilesystem (ios.py 248-332) on the directory.
IosDeviceFilesystem_read(tree, flags, op, path, read_only) ==
    LET h == get_hashed_pathname(tree.rows, path)
    IN  IF op \in {"is_locked", "is_subset_filesystem"} THEN SettingsRead(flags, op)
        ELSE IF op \in {"dirname", "basename", "stat"}
        THEN Ret("NotImplementedError", "", path, "")
        ELSE IF op = "scandir" THEN Ret("none", "list", <<>>, "")
        ELSE IF h.err # "none" THEN Ret(h.err, "", path, "")
        ELSE IF op = "exists" THEN Ret("none", Bool(h.path \in tree.files), <<>>, "")
        ELSE IF op = "sqlite3_connect"
        THEN Ret("none", "sqlite3_connect_filename", h.path, IF read_only THEN "ro" ELSE "rw")
        ELSE IF h.path \notin tree.files THEN Ret("FileNotFoundError", "", h.path, "")
        ELSE IF op = "getsize" THEN Ret("none", "size", h.path, "")
        ELSE Ret("none", "file", h.path, "rb")

\* IosZippedDeviceFilesystem (ios.py 376-416): every read goes to self._real,
\* the IosDeviceFilesystem made on the unzipped root.
IosZippedDeviceFilesystem_read(tree, flags, op, path, read_only) ==
    IosDeviceFilesystem_read(tree, flags, op, path, read_only)

\* The directory a zipped object makes its DeviceSettings on (ios.py 355,
\* android.py 110), and the one the settings of the object behind it are on
\* (ios.py 356: device_settings=self._settings; the Android class keeps no
\* object behind it but the FSLibFilesystem).
ZippedSettingsDir(variant) == "extracted"
InnerSettingsDir(variant) == ZippedSettingsDir(variant)

\* The call made on the zipped object and on its plain counterpart.
ViewCall(v, op, path, read_only) ==
    LET zflags == v.store[v.zipped_dir]
        pflags == v.store["extracted"]
    IN  [v EXCEPT
           !.op = op, !.path = path, !.read_only = read_only,
           !.zipped = IF v.variant = "android_zipped"
                      THEN AndroidZippedDeviceFilesystem_read(v.tree, zflags, op, path, read_only)
                      ELSE IosZippedDeviceFilesystem_read(v.tree, zflags, op, path, read_only),
           !.plain = IF v.variant = "android_zipped"
                     THEN AndroidDeviceFilesystem_read(v.tree, pflags, op, path, read_only)
                     ELSE IosDeviceFilesystem_read(v.tree, pflags, op, path, read_only)]

View_read(op, path, read_only) ==
    /\ pcall' = ViewCall(pcall, op, path, read_only)
    /\ PureOnly

\* lock(locked) through the zipped object, through the object behind it or
\* through a plain one made on the same directory.
View_lock(through, locked) ==
    /\ LET dir == CASE through = "zipped" -> pcall.zipped_dir
                    [] through = "inner" -> pcall.inner_dir
                    [] OTHER -> "extracted"
       IN  pcall' = [pcall EXCEPT !.op = "lock", !.path = <<>>,
                                  !.store[dir] = SetSetting(@, "locked", locked)]
    /\ PureOnly

\* A zipped object just constructed on an archive, whose settings are on
\* the directory that holds the extracted top-level directory's content.
InitView ==
    /\ \E variant \in {"android_zipped", "ios_zipped"}, tree \in ViewTrees :
          pcall = [variant |-> variant, tree |-> tree,
                   zipped_dir |-> ZippedSettingsDir(variant),
                   inner_dir |-> InnerSettingsDir(variant),
                   store |-> [d \in SettingsDirs |-> NoSettings],
                   op |-> "none", path |-> <<>>, read_only |-> TRUE,
                   zipped |-> Ret("none", "", <<>>, ""), plain |-> Ret("none", "", <<>>, "")]
    /\ EncAtRest /\ ManIdle /\ CacheIdle /\ ZipIdle /\ DevIdle /\ SqlIdle

NextView ==
    \/ \E op \in ReadOpNames, path \in ViewPaths, read_only \in BOOLEAN :
          View_read(op, path, read_only)
    \/ \E through \in {"zipped", "inner", "plain"}, locked \in BOOLEAN :
          View_lock(through, locked)

SpecView == InitView /\ [][NextView]_vars

====
